---- MODULE Spec2Model ----
(***************************************************************************)
(* A model of the SMS gateway: the outbound send path of simbank.js        *)
(* (sendSms, ensureSlotReady, withRetry), the inbound webhook of           *)
(* webhook.js (router.post('/sms')) over the conversation store of         *)
(* database.js, the deduplication window (isDuplicateMessage), the slot    *)
(* scan of slotScan.js (runSlotScan, stopScan) and the SIM activation      *)
(* watches of slack.js.                                                    *)
(*                                                                         *)
(* Strings the code inspects character by character (slot notation, phone  *)
(* numbers, message content) are sequences of one-character strings.       *)
(* Time is in milliseconds, as Date.now() is.                              *)
(*                                                                         *)
(* The process is single-threaded: an action is one run of a handler from  *)
(* one suspension on I/O (an await of a network call or a timer) to the    *)
(* next. An await of an already settled promise only defers to the         *)
(* microtask queue, which drains before any other request's I/O callback   *)
(* runs, so it is no interleaving point.                                   *)
(***************************************************************************)
EXTENDS Integers, Sequences, FiniteSets, TLC

VARIABLES
    now,            \* Date.now()
    \* ---- simbank.js: one sendSms call
    sendPc,         \* position of the sendSms call
    sendArgs,       \* [bankId, slot, toPhone] of the call
    status,         \* ensureSlotReady's local `status` (last getSlotStatus reply)
    startTime,      \* ensureSlotReady's local `startTime`
    attempt,        \* withRetry's local `attempt`
    tids,           \* history: for each send command, in order, the attempt
                    \* before which the tid it carries was taken from the clock
    response,       \* sendSms's local `response`
    progressLog,    \* the steps passed to onProgress, in order
    httpLog,        \* the HTTP requests issued to the bank, in order
    readySeen,      \* history: a status query of this call reported the slot ready
    lastWaitingAt,  \* history: time of the last onProgress('waiting')
    maxWaitingGap,  \* history: longest time the poll loop ran with no 'waiting'
    firstReply,     \* history: the reply to the call's first status query
    sendThrows,     \* history: send attempts that threw (transport failures)
    sendResult,     \* outcome of the call: "none" while running
    pollFailed,     \* history: a status query of the poll loop failed
    lastGood,       \* history: the last status reply that was no error
    callerPc,       \* slack.js: position of the handler that called sendSms
    \* ---- utils.js: one withRetry call
    retry,          \* its options, locals and history
    \* ---- webhook.js, database.js: the inbound webhook
    req,            \* per request of POST /sms: its inputs, locals and response
    recentMessages, \* webhook.js: the dedupe Map, key -> timestamp
    conversations,  \* database.js: the conversations table, in id order
    messages,       \* database.js: the messages table, in id order
    blockedNumbers, \* database.js: the blocked_numbers table (phone numbers)
    lastKnownSlot,  \* simbank.js: the lastKnownSlot Map, <<bank, channel>> -> slot
    slackPosts,     \* chat.postMessage calls that succeeded, in order
    ticks,          \* number of clock advances between requests so far
    pendingDeliveries, \* deliveryTracker.js: the Map phone -> {ts, timestamp}
    reactions,      \* reactions.add calls made for delivery reports, in order
    tracked,        \* number of trackOutboundSms calls so far
    calls,          \* history: the calls of isDuplicateMessage, or of
                    \* createConversation, made on their own
    \* ---- slotScan.js
    activeScan,     \* the module's `activeScan`: 0 for null, else the
                    \* runSlotScan call whose state object it refers to
    scans,          \* per runSlotScan call: its position, its local slotPos,
                    \* and its state object's currentSlot and status
    switchLog,      \* history: the switchBankToSlot calls, in order
    \* ---- slack.js: SIM activation
    simActivationWatches, \* the Map phone -> {threadTs, endTime, name}
    watchTimers     \* the pending setTimeout cleanup callbacks

sendVars == <<sendPc, sendArgs, status, startTime, attempt, tids, response, progressLog,
              httpLog, readySeen, lastWaitingAt, maxWaitingGap, firstReply,
              sendThrows, sendResult, pollFailed, lastGood, callerPc, retry>>

trackVars == <<pendingDeliveries, reactions, tracked>>

webVars == <<req, recentMessages, conversations, messages, blockedNumbers,
             lastKnownSlot, slackPosts, ticks, trackVars>>

scanVars == <<activeScan, scans, switchLog>>

watchVars == <<simActivationWatches, watchTimers>>

vars == <<now, sendVars, webVars, calls, scanVars, watchVars>>

----------------------------------------------------------------------------
(* Strings as character sequences *)

\* String.prototype.includes for a one-character needle
Includes(s, ch) == \E i \in 1..Len(s) : s[i] = ch

\* s.split(ch)[0]: the part before the first ch (all of s when there is none)
RECURSIVE SplitFirst(_, _)
SplitFirst(s, ch) ==
    IF s = <<>> \/ Head(s) = ch THEN <<>>
    ELSE <<Head(s)>> \o SplitFirst(Tail(s), ch)

NULL == <<"null">>

Range(s) == {s[i] : i \in 1..Len(s)}
Count(s, x) == Cardinality({i \in 1..Len(s) : s[i] = x})

----------------------------------------------------------------------------
(* utils.js, slack.js, webhook.js: the pure functions of the inbound path *)

Digits == {"0", "1", "2", "3", "4", "5", "6", "7", "8", "9"}

\* s.includes(sub)
IncludesStr(s, sub) ==
    \E i \in 1..(Len(s) - Len(sub) + 1) : SubSeq(s, i, i + Len(sub) - 1) = sub

UpperCase == <<"A", "B", "C", "D", "E", "F", "G", "H", "I", "J", "K", "L", "M", "N", "O", "P", "Q", "R", "S", "T", "U", "V", "W", "X", "Y", "Z">>
LowerCase == <<"a", "b", "c", "d", "e", "f", "g", "h", "i", "j", "k", "l", "m", "n", "o", "p", "q", "r", "s", "t", "u", "v", "w", "x", "y", "z">>

\* s.toLowerCase()
toLowerCase(s) ==
    [i \in 1..Len(s) |->
        IF \E j \in 1..Len(UpperCase) : UpperCase[j] = s[i]
        THEN LowerCase[CHOOSE j \in 1..Len(UpperCase) : UpperCase[j] = s[i]]
        ELSE s[i]]

\* utils.js normalizePhone: drop all but digits and '+', drop one leading '+',
\* prefix a 10-digit number with '1', return '+' and the rest
normalizePhone(phone) ==
    IF phone = NULL \/ phone = <<>> THEN NULL
    ELSE LET kept == SelectSeq(phone, LAMBDA c : c \in Digits \cup {"+"})
             bare == IF kept # <<>> /\ Head(kept) = "+" THEN Tail(kept) ELSE kept
             cleaned == IF Len(bare) = 10 THEN <<"1">> \o bare ELSE bare
         IN <<"+">> \o cleaned

\* webhook.js isShortCode: 5 or 6 digits
isShortCode(phone) ==
    LET digits == SelectSeq(phone, LAMBDA c : c \in Digits)
    IN Len(digits) >= 5 /\ Len(digits) <= 6

\* the provider keywords isVerificationCode looks for in the lowercased text
VerificationKeywords ==
    {<<"t", "i", "c", "k", "e", "t", "m", "a", "s", "t", "e", "r">>,
     <<"s", "t", "u", "b", "h", "u", "b">>,
     <<"s", "e", "a", "t", "g", "e", "e", "k">>,
     <<"v", "i", "v", "i", "d", " ", "s", "e", "a", "t", "s">>,
     <<"a", "x", "s">>,
     <<"g", "m", "a", "i", "l">>,
     <<"m", "i", "c", "r", "o", "s", "o", "f", "t">>,
     <<"y", "a", "h", "o", "o">>,
     <<"o", "u", "t", "l", "o", "o", "k">>}

\* slack.js isVerificationCode
isVerificationCode(content) ==
    IF content = NULL \/ content = <<>> THEN FALSE
    ELSE LET text == toLowerCase(content)
         IN \/ \E i \in 1..(Len(text) - 7) :
                   /\ text[i] = "g"
                   /\ text[i + 1] = "-"
                   /\ \A j \in 2..7 : text[i + j] \in Digits
            \/ /\ IncludesStr(text, <<"g", "o", "o", "g", "l", "e">>)
               /\ \/ IncludesStr(text, <<"c", "o", "d", "e">>)
                  \/ IncludesStr(text, <<"v", "e", "r", "i", "f", "i", "c", "a", "t", "i", "o", "n">>)
            \/ \E k \in VerificationKeywords : IncludesStr(text, k)

\* processDeliveryReport with its marker test never matching
NeverDeliveryReport(content) == FALSE

\* webhook.js processDeliveryReport's test: content.startsWith('DRPT:')
IsDeliveryReport(content) ==
    Len(content) >= 5 /\ SubSeq(content, 1, 5) = <<"D", "R", "P", "T", ":">>

\* processDeliveryReport's content.match(/(\d{10,15})/): the leftmost run of
\* at least 10 digits, cut at 15; NULL when there is none
FirstPhoneIn(content) ==
    LET starts == {i \in 1..(Len(content) - 9) :
                      \A j \in 0..9 : content[i + j] \in Digits}
    IN IF starts = {} THEN NULL
       ELSE LET i == CHOOSE x \in starts : \A y \in starts : x <= y
                ends == {e \in (i + 9)..(i + 14) :
                            /\ e <= Len(content)
                            /\ \A j \in i..e : content[j] \in Digits}
            IN SubSeq(content, i, CHOOSE e \in ends : \A f \in ends : f <= e)

\* deliveryTracker.js: phone.replace(/^\+/, '')
cleanPhone(phone) ==
    IF phone # <<>> /\ Head(phone) = "+" THEN Tail(phone) ELSE phone

\* processDeliveryReport's choice of reaction
DeliveryEmoji(content) ==
    IF IncludesStr(toLowerCase(content), <<"s", "u", "c", "c", "e", "s", "s">>)
    THEN "white_check_mark" ELSE "x"

\* deliveryTracker.js EXPIRY_MS
EXPIRY_MS == 300000

DEDUPE_WINDOW_MS == 1800000
\* isDuplicateMessage sweeps the map when it holds more entries than this
DEDUPE_SWEEP_SIZE == 100

\* webhook.js getMessageKey: the string `${sender}|${recipient}|${content}`,
\* whose MD5 digest is the key; the digest is taken to be collision-free, so
\* the key stands for the string it is computed from
getMessageKey(sender, recipient, content) ==
    sender \o <<"|">> \o recipient \o <<"|">> \o content

\* The cleanup run on every call, whatever the size of the map
SweepOldAlways(m, t) ==
    [k \in {x \in DOMAIN m : ~(t - m[x] > DEDUPE_WINDOW_MS)} |-> m[k]]

\* The cleanup removing what is older than five minutes
SweepOldFiveMinutes(m, t) ==
    IF Cardinality(DOMAIN m) > DEDUPE_SWEEP_SIZE
    THEN [k \in {x \in DOMAIN m : ~(t - m[x] > 5 * 60 * 1000)} |-> m[k]]
    ELSE m

\* isDuplicateMessage's cleanup of the map m at time t
SweepOld(m, t) ==
    IF Cardinality(DOMAIN m) > DEDUPE_SWEEP_SIZE
    THEN [k \in {x \in DOMAIN m : ~(t - m[x] > DEDUPE_WINDOW_MS)} |-> m[k]]
    ELSE m

\* isDuplicateMessage storing the time of a duplicate sighting too
isDuplicateMessageRefreshes(m, key, t) ==
    LET swept == SweepOld(m, t)
    IN [dup |-> key \in DOMAIN swept /\ t - swept[key] < DEDUPE_WINDOW_MS,
        map |-> [k \in DOMAIN swept \cup {key} |-> IF k = key THEN t ELSE swept[k]]]

\* isDuplicateMessage with the 5-minute window its call site's comment names
isDuplicateMessageFiveMinutes(m, key, t) ==
    LET swept == SweepOld(m, t)
    IN IF key \in DOMAIN swept /\ t - swept[key] < 5 * 60 * 1000
       THEN [dup |-> TRUE, map |-> swept]
       ELSE [dup |-> FALSE,
             map |-> [k \in DOMAIN swept \cup {key} |->
                         IF k = key THEN t ELSE swept[k]]]

\* webhook.js isDuplicateMessage on the map m at time t: the value returned
\* and the map it leaves
isDuplicateMessage(m, key, t) ==
    LET swept == SweepOld(m, t)
    IN IF key \in DOMAIN swept /\ t - swept[key] < DEDUPE_WINDOW_MS
       THEN [dup |-> TRUE, map |-> swept]
       ELSE [dup |-> FALSE,
             map |-> [k \in DOMAIN swept \cup {key} |->
                         IF k = key THEN t ELSE swept[k]]]

----------------------------------------------------------------------------
(* The inbound webhook's inputs and state *)

\* Requests the model lets arrive
MaxReqs == 2
Reqs == 1..MaxReqs
\* Clock advances between requests
MaxTicks == 2

\* trackOutboundSms calls the model makes
MaxTracks == 1

\* req.query.sender: one number written two ways, a short code, a number on
\* the blocklist, a value without any digit, and a request without sender
SenderA10 == <<"5", "5", "5", "0", "1", "0", "0", "0", "0", "1">>
SenderAE164 == <<"+", "1", "5", "5", "5", "0", "1", "0", "0", "0", "0", "1">>
SenderShort == <<"2", "4", "2", "7", "3">>
SenderBlocked == <<"5", "5", "5", "0", "1", "0", "0", "0", "0", "2">>
SenderNoDigits == <<"a", "b", "c">>
Senders == {SenderA10, SenderAE164, SenderShort, SenderBlocked, SenderNoDigits,
            <<>>}
PhoneBlocked == normalizePhone(SenderBlocked)

\* req.query.receiver
Receivers == {<<"1", "5", "5", "5", "0", "1", "0", "0", "0", "0", "9">>}

\* A delivery report for the send to SenderA10
ReportSuccess ==
    <<"D", "R", "P", "T", ":", " ", "1", "5", "5", "5", "0", "1", "0", "0", "0",
      "0", "1", " ", "S", "u", "c", "c", "e", "s", "s">>

ReportFailure ==
    <<"D", "R", "P", "T", ":", " ", "1", "5", "5", "5", "0", "1", "0", "0", "0",
      "0", "1", " ", "F", "a", "i", "l">>

\* message content: a Google code, plain text, a delivery report
Contents == {<<"G", "-", "1", "2", "3", "4", "5", "6">>, <<"h", "i">>,
             ReportSuccess}

\* delivery reports: success, failure, and one that names no number
Reports == {ReportSuccess, ReportFailure, <<"D", "R", "P", "T", ":">>}

\* the numbers outbound messages are sent to: conversation.sender_phone of the
\* thread replied in
OutboundPhones == {normalizePhone(SenderA10)}

\* (bank, slot) as parsed from the query and the body's Receiver line; the
\* bank is 'unknown' when the query names none, the slot null when the body
\* names none
Origins == {<<"50004", <<"4", ".", "0", "7">>>>, <<"unknown", NULL>>}

\* ICCIDs a status query can report (NULL: none)
Iccids == {NULL, <<"8", "9">>}

NoRequest ==
    [pc |-> "new", sender |-> NULL, recipient |-> NULL, content |-> NULL,
     bank |-> "", slot |-> NULL, at |-> -1,
     deliveryPhone |-> NULL, pendingTs |-> 0, isVerification |-> FALSE,
     classified |-> FALSE, answer |-> "none", spam |-> "none",
     iccid |-> NULL, conv |-> 0,
     thread |-> 0, resp |-> "none", http |-> 0]

InitWebVars ==
    /\ req = [r \in Reqs |-> NoRequest]
    /\ recentMessages = <<>>
    /\ conversations = <<>>
    /\ messages = <<>>
    /\ blockedNumbers = {PhoneBlocked}
    /\ lastKnownSlot = <<>>
    /\ slackPosts = <<>>
    /\ ticks = 0
    /\ pendingDeliveries = <<>>
    /\ reactions = <<>>
    /\ tracked = 0
    /\ calls = <<>>

----------------------------------------------------------------------------
(* simbank.js *)

SLOT_ACTIVATION_TIMEOUT_MS == 90000
SLOT_POLL_INTERVAL_MS == 10000
\* AbortSignal.timeout(10000) of the status, switch and send requests
HTTP_TIMEOUT_MS == 10000
\* activateSlot's "brief delay for switch to take effect"
SWITCH_DELAY_MS == 2000
\* sendSms: withRetry(..., { maxRetries: 2, baseDelay: 1000 })
SEND_MAX_RETRIES == 2
SEND_BASE_DELAY_MS == 1000

\* Bank ids sendSms is called with
BankIds == {"50004", "59999"}

\* A sim_banks table that holds a row for every bank id
EveryBankConfigured == {"50004", "59999"}

\* The sim_banks table: db.getSimBank finds these bank ids
ConfiguredBanks == {"50004"}

\* Slot arguments: "4.07", and the 'unknown' the webhook stores when the
\* inbound body names no slot
Slot407 == <<"4", ".", "0", "7">>
SlotUnknown == <<"u", "n", "k", "n", "o", "w", "n">>
SlotArgs == {Slot407, SlotUnknown, NULL}

ToPhones == {<<"+", "1", "5">>, <<>>}

\* How long an HTTP exchange with the bank can take: at once, half its abort
\* timeout, or all of it
CallDurations == {0, HTTP_TIMEOUT_MS \div 2, HTTP_TIMEOUT_MS}

\* getSlotStatus's reply: an error object, or the slot's fields. st is the
\* parsed status code (2 Registering, 3 Registered - Ready)
StatusError == [error |-> TRUE, active |-> 0, st |-> 0]
StCodes == {2, 3}
StatusReplies ==
    {StatusError} \cup [error : {FALSE}, active : {0, 1}, st : StCodes]

NoStatus == [error |-> FALSE, active |-> -1, st |-> -1]

PORT_STATUS ==
    <<"Idle SIM present", "Registering", "Registered - Ready", "Call connected",
      "Register failed", "Low balance", "Locked by device", "Locked by operator",
      "SIM card error">>

\* `status.statusText` of a getSlotStatus reply: PORT_STATUS[statusCode] ||
\* 'Unknown', and undefined on the error object, which has no such field
statusText(s) ==
    IF s.error THEN "undefined"
    ELSE IF s.st = 0 THEN "No SIM card"
    ELSE IF s.st \in 1..9 THEN PORT_STATUS[s.st]
    ELSE "Unknown"

\* ensureSlotReady's timeout error: `(last status: ${status.statusText})`
TimeoutLastStatus(s) == statusText(s)

\* isSlotReady comparing st with the code of Registering instead of Ready
isSlotReadyWrongCode(s) ==
    IF s.error THEN FALSE
    ELSE LET isActive == s.active = 1
             isRegistered == s.st = 2
         IN isActive /\ isRegistered

\* isSlotReady(status)
isSlotReady(s) ==
    IF s.error THEN FALSE
    ELSE LET isActive == s.active = 1
             isRegistered == s.st = 3
         IN isActive /\ isRegistered

\* ensureSlotReady's guard: if (!slot || !slot.includes('.')) return;
SkipsReadiness(slot) == slot = NULL \/ slot = <<>> \/ ~Includes(slot, ".")

\* The vendor's answer to one send attempt: the fetch throws (connection
\* error, abort, non-2xx, body that is no JSON), or a JSON body with a
\* top-level code and response.status?.[0]?.status (NULL: absent)
TaskAccepted == <<"0">>
TaskFailed == <<"2">>
TaskStatuses == {NULL, <<>>, TaskAccepted, TaskFailed}
VendorCodes == {200, 2, 14}
SendThrows == [throws |-> TRUE, code |-> 0, task |-> NULL]
SendReplies ==
    {SendThrows} \cup [throws : {FALSE}, code : VendorCodes, task : TaskStatuses]

NoResponse == [throws |-> FALSE, code |-> -1, task |-> NULL]

\* JavaScript truthiness of a string-or-undefined
Truthy(s) == s # NULL /\ s # <<>>
StartsWith(s, ch) == Len(s) >= 1 /\ s[1] = ch

\* sendSms's check of the response: "ok", or the error it throws
ValidateResponse(r) ==
    IF r.code # 200 THEN "vendorCode"
    ELSE IF Truthy(r.task) /\ ~StartsWith(r.task, "0") THEN "taskFailed"
    ELSE "ok"

----------------------------------------------------------------------------
(* utils.js *)

\* the delay with a factor that grows by one per attempt
BackoffDelayLinear(baseDelay, k) == baseDelay * k

\* withRetry: baseDelay * Math.pow(2, attempt - 1)
BackoffDelay(baseDelay, k) == baseDelay * (2 ^ (k - 1))

\* the largest maxRetries withRetry is called with
MaxRetriesTried == 4

\* the options sendSms passes to withRetry
SendRetryOptions ==
    [maxRetries |-> SEND_MAX_RETRIES, baseDelay |-> SEND_BASE_DELAY_MS]

\* The options withRetry is called with: those of sendSms, the defaults
\* (maxRetries = 3, baseDelay = 1000), and others
RetryOptions ==
    {SendRetryOptions} \cup
    {[maxRetries |-> n, baseDelay |-> d] :
        n \in 0..MaxRetriesTried, d \in {250, SEND_BASE_DELAY_MS}}

\* what fn() throws, and what it returns
FnErrors == {"e1", "e2"}
FnValues == {"v1", "v2"}

\* no withRetry call yet. outcomes: what each fn() call did, in order; slept:
\* the delays slept, in order; result: what the call returned or threw
NoRetry ==
    [pc |-> "idle", maxRetries |-> 0, baseDelay |-> 0, attempt |-> 0,
     outcomes |-> <<>>, slept |-> <<>>, result |-> "none"]

\* withRetry(fn, options) runs to its first await: fn() is called when the
\* loop is entered, and a loop that is not entered returns undefined
withRetry ==
    /\ retry.pc = "idle"
    /\ \E o \in RetryOptions :
        retry' = [retry EXCEPT !.maxRetries = o.maxRetries,
                               !.baseDelay = o.baseDelay,
                               !.attempt = 1,
                               !.pc = IF 1 <= o.maxRetries THEN "fn" ELSE "returned",
                               !.result = IF 1 <= o.maxRetries THEN "none"
                                          ELSE "undefined"]
    /\ UNCHANGED <<now, sendPc, sendArgs, status, startTime, attempt, tids, response,
                   progressLog, httpLog, readySeen, lastWaitingAt, maxWaitingGap,
                   firstReply, sendThrows, sendResult, pollFailed, lastGood,
                   callerPc, webVars, calls, scanVars, watchVars>>

\* fn() settles: its value is returned, or its error is rethrown on the last
\* attempt and followed by a sleep on the others
FnSettles ==
    /\ retry.pc = "fn"
    /\ \E x \in FnValues \cup FnErrors :
        retry' = [retry EXCEPT
                    !.outcomes = Append(@, x),
                    !.pc = IF x \in FnValues THEN "returned"
                           ELSE IF retry.attempt = retry.maxRetries THEN "threw"
                           ELSE "sleep",
                    !.result = IF x \in FnValues
                                  \/ retry.attempt = retry.maxRetries
                               THEN x ELSE @]
    /\ UNCHANGED <<now, sendPc, sendArgs, status, startTime, attempt, tids, response,
                   progressLog, httpLog, readySeen, lastWaitingAt, maxWaitingGap,
                   firstReply, sendThrows, sendResult, pollFailed, lastGood,
                   callerPc, webVars, calls, scanVars, watchVars>>

\* sleep(delay) ends: attempt++ and, while attempt <= maxRetries, fn() again
SleepEnds ==
    /\ retry.pc = "sleep"
    /\ now' = now + BackoffDelay(retry.baseDelay, retry.attempt)
    /\ retry' = [retry EXCEPT
                    !.slept = Append(@, BackoffDelay(retry.baseDelay, retry.attempt)),
                    !.attempt = @ + 1,
                    !.pc = IF retry.attempt + 1 <= retry.maxRetries THEN "fn"
                           ELSE "returned",
                    !.result = IF retry.attempt + 1 <= retry.maxRetries THEN @
                               ELSE "undefined"]
    /\ UNCHANGED <<sendPc, sendArgs, status, startTime, attempt, tids, response,
                   progressLog, httpLog, readySeen, lastWaitingAt, maxWaitingGap,
                   firstReply, sendThrows, sendResult, pollFailed, lastGood,
                   callerPc, webVars, calls, scanVars, watchVars>>

NextRetry ==
    \/ withRetry
    \/ FnSettles
    \/ SleepEnds

----------------------------------------------------------------------------
(* simbank.js: sendSms *)

\* withRetry's delay before attempt k+1 of the send
RetryDelay(k) == BackoffDelay(SEND_BASE_DELAY_MS, k)

\* runSlotScan calls the model follows
MaxScans == 2
Scans == 1..MaxScans
\* stopScan calls that find a scan
MaxStops == 1
\* slot positions a scan cycles through (TOTAL_SLOTS is 8)
ScanSlots == 2

\* a runSlotScan call that was not made yet
NoScan == [pc |-> "new", slotPos |-> 0, currentSlot |-> 0, status |-> "none"]

\* slotScan.js `let activeScan = null`
InitScanVars ==
    /\ activeScan = 0
    /\ scans = [id \in Scans |-> NoScan]
    /\ switchLog = <<>>

\* slack.js `const simActivationWatches = new Map()`, and no timer set
InitWatchVars ==
    /\ simActivationWatches = <<>>
    /\ watchTimers = {}

InitSendVars ==
    /\ InitScanVars
    /\ InitWatchVars
    /\ sendPc = "idle"
    /\ sendArgs = [bankId |-> "", slot |-> NULL, toPhone |-> <<>>,
                   sink |-> "none"]
    /\ status = NoStatus
    /\ startTime = -1
    /\ attempt = 0
    /\ tids = <<>>
    /\ response = NoResponse
    /\ progressLog = <<>>
    /\ httpLog = <<>>
    /\ readySeen = FALSE
    /\ lastWaitingAt = -1
    /\ maxWaitingGap = 0
    /\ firstReply = NoStatus
    /\ sendThrows = 0
    /\ sendResult = "none"
    /\ pollFailed = FALSE
    /\ lastGood = NoStatus
    /\ retry = NoRetry
    /\ callerPc = "idle"

\* The conversation of the thread the outbound message is written in: the
\* handlers return before sendSms when they find none
ThreadConversation ==
    [id |-> 1, sender_phone |-> <<"+", "1", "5">>,
     recipient_phone |-> <<"+", "1", "6">>, sim_bank_id |-> "50004",
     sim_port |-> <<"4", ".", "0", "7">>, slack_thread_ts |-> 1,
     last_message_at |-> 0, iccid |-> NULL]

\* the text of the outbound message
ReplyText == <<"o", "k">>

\* The store holds the thread's conversation when an outbound send starts
InitSend ==
    /\ now = 0
    /\ InitSendVars
    /\ req = [r \in Reqs |-> NoRequest]
    /\ recentMessages = <<>>
    /\ conversations = <<ThreadConversation>>
    /\ messages = <<>>
    /\ blockedNumbers = {PhoneBlocked}
    /\ lastKnownSlot = <<>>
    /\ slackPosts = <<>>
    /\ ticks = 0
    /\ pendingDeliveries = <<>>
    /\ reactions = <<>>
    /\ tracked = 0
    /\ calls = <<>>

\* sendSms throws (or ensureSlotReady's throw propagates): the call is over
Throw(err) ==
    /\ sendPc' = "done"
    /\ sendResult' = err

\* sendSms after ensureSlotReady returned: `tid = Date.now()` goes into the
\* postBody, which is built once; progress('sending', ...) and the first
\* attempt of withRetry posts goip_post_sms
BeginSend(plog, sink) ==
    /\ progressLog' = Append(plog, "sending")
    /\ IF sink = "sending"
       THEN Throw("progressFailed") /\ UNCHANGED <<httpLog, attempt, tids>>
       ELSE /\ httpLog' = Append(httpLog, "send")
            /\ attempt' = 1
            /\ tids' = <<1>>
            /\ sendPc' = "send"
            /\ sendResult' = "none"

\* ensureSlotReady saw the slot ready: onProgress('ready', ...), return, and
\* sendSms goes on
ReadyThenSend(plog, sink) ==
    IF sink = "ready"
    THEN /\ progressLog' = Append(plog, "ready")
         /\ Throw("progressFailed")
         /\ UNCHANGED <<httpLog, attempt, tids>>
    ELSE BeginSend(Append(plog, "ready"), sink)

\* The steps onProgress is called with
ProgressSteps == {"checking", "ready", "switching", "waiting", "sending"}

\* A handler of slack.js (the @mention flow or the /reply command) calls
\* sendSms, which runs from its entry to its first suspension. sink is the
\* step at which the onProgress given to the call throws ("none": never)
sendSmsCall(b, sl, to, sink) ==
    /\ UNCHANGED <<webVars, calls, scanVars, watchVars>>
    /\ sendPc = "idle"
    /\ now' = now
    /\ callerPc' = "awaiting"
    /\ sendArgs' = [bankId |-> b, slot |-> sl, toPhone |-> to, sink |-> sink]
    /\ IF to = <<>>
       THEN Throw("toPhoneRequired")
            /\ UNCHANGED <<progressLog, httpLog, attempt, tids>>
       ELSE IF b \notin ConfiguredBanks
       THEN Throw("bankNotFound")
            /\ UNCHANGED <<progressLog, httpLog, attempt, tids>>
       ELSE IF SkipsReadiness(sl)
       THEN BeginSend(progressLog, sink)
       ELSE /\ progressLog' = Append(progressLog, "checking")
            /\ IF sink = "checking"
               THEN Throw("progressFailed") /\ UNCHANGED <<httpLog, attempt, tids>>
               ELSE /\ httpLog' = Append(httpLog, "status")
                    /\ sendPc' = "status0"
                    /\ UNCHANGED <<attempt, tids, sendResult>>
    /\ UNCHANGED <<status, startTime, response, readySeen, lastWaitingAt,
                   maxWaitingGap, firstReply, sendThrows, pollFailed, lastGood,
                   retry>>

\* sendSms called by the handlers of slack.js: the @mention flow's onProgress
\* catches what its chat update throws, the /reply command passes none
sendSms ==
    \E b \in BankIds, sl \in SlotArgs, to \in ToPhones :
        sendSmsCall(b, sl, to, "none")

\* sendSms called with an onProgress that throws at one of the steps
sendSmsFaultySink ==
    \E b \in ConfiguredBanks, sl \in SlotArgs, sink \in ProgressSteps :
        sendSmsCall(b, sl, <<"+", "1", "5">>, sink)

\* The loop head with the ceiling compared by <= instead of <
LoopHeadInclusive(t, plog) ==
    IF t - startTime' <= SLOT_ACTIVATION_TIMEOUT_MS
    THEN /\ progressLog' = Append(plog, "waiting")
         /\ lastWaitingAt' = t
         /\ maxWaitingGap' =
                IF lastWaitingAt >= 0 /\ t - lastWaitingAt > maxWaitingGap
                THEN t - lastWaitingAt ELSE maxWaitingGap
         /\ IF sendArgs.sink = "waiting"
            THEN Throw("progressFailed")
            ELSE sendPc' = "sleep" /\ sendResult' = "none"
    ELSE /\ progressLog' = plog
         /\ Throw("timeout")
         /\ maxWaitingGap' =
                IF lastWaitingAt >= 0 /\ t - lastWaitingAt > maxWaitingGap
                THEN t - lastWaitingAt ELSE maxWaitingGap
         /\ UNCHANGED lastWaitingAt

\* The head of ensureSlotReady's while loop, reached at time t with the
\* progress log plog
LoopHead(t, plog) ==
    IF t - startTime' < SLOT_ACTIVATION_TIMEOUT_MS
    THEN /\ progressLog' = Append(plog, "waiting")
         /\ lastWaitingAt' = t
         /\ maxWaitingGap' =
                IF lastWaitingAt >= 0 /\ t - lastWaitingAt > maxWaitingGap
                THEN t - lastWaitingAt ELSE maxWaitingGap
         /\ IF sendArgs.sink = "waiting"
            THEN Throw("progressFailed")
            ELSE sendPc' = "sleep" /\ sendResult' = "none"
    ELSE /\ progressLog' = plog
         /\ Throw("timeout")
         /\ maxWaitingGap' =
                IF lastWaitingAt >= 0 /\ t - lastWaitingAt > maxWaitingGap
                THEN t - lastWaitingAt ELSE maxWaitingGap
         /\ UNCHANGED lastWaitingAt

\* The first getSlotStatus returns, with a status error swallowed: sendSms
\* goes on to the send
FirstStatusSwallowsError ==
    /\ UNCHANGED <<webVars, calls, scanVars, watchVars>>
    /\ sendPc = "status0"
    /\ \E reply \in StatusReplies, d \in CallDurations :
        /\ now' = now + d
        /\ status' = reply
        /\ firstReply' = reply
        /\ readySeen' = isSlotReady(reply)
        /\ lastGood' = IF reply.error THEN lastGood ELSE reply
        /\ IF reply.error
           THEN BeginSend(progressLog, sendArgs.sink)
           ELSE IF isSlotReady(reply)
           THEN ReadyThenSend(progressLog, sendArgs.sink)
           ELSE /\ progressLog' = Append(progressLog, "switching")
                /\ httpLog' = Append(httpLog, "switch")
                /\ sendPc' = "switch"
                /\ UNCHANGED <<attempt, tids, sendResult>>
    /\ UNCHANGED <<sendArgs, startTime, response, lastWaitingAt, maxWaitingGap,
                   sendThrows, pollFailed, retry, callerPc>>

\* ensureSlotReady: the first getSlotStatus returns
FirstStatus ==
    /\ UNCHANGED <<webVars, calls, scanVars, watchVars>>
    /\ sendPc = "status0"
    /\ \E reply \in StatusReplies, d \in CallDurations :
        /\ now' = now + d
        /\ status' = reply
        /\ firstReply' = reply
        /\ readySeen' = isSlotReady(reply)
        /\ lastGood' = IF reply.error THEN lastGood ELSE reply
        /\ IF reply.error
           THEN Throw("statusError") /\ UNCHANGED <<progressLog, httpLog, attempt, tids>>
           ELSE IF isSlotReady(reply)
           THEN ReadyThenSend(progressLog, sendArgs.sink)
           ELSE /\ progressLog' = Append(progressLog, "switching")
                /\ IF sendArgs.sink = "switching"
                   THEN Throw("progressFailed") /\ UNCHANGED <<httpLog, attempt, tids>>
                   ELSE /\ httpLog' = Append(httpLog, "switch")
                        /\ sendPc' = "switch"
                        /\ UNCHANGED <<attempt, tids, sendResult>>
    /\ UNCHANGED <<sendArgs, startTime, response, lastWaitingAt, maxWaitingGap,
                   sendThrows, pollFailed, retry, callerPc>>

\* ensureSlotReady: activateSlot returns (after its 2 s delay) or throws
\* (connection error, abort, non-2xx); nothing catches the throw
activateSlot ==
    /\ UNCHANGED <<webVars, calls, scanVars, watchVars>>
    /\ sendPc = "switch"
    /\ \E ok \in BOOLEAN, d \in CallDurations :
        IF ok
        THEN /\ now' = now + d + SWITCH_DELAY_MS
             /\ startTime' = now'
             /\ LoopHead(now', progressLog)
        ELSE /\ now' = now + d
             /\ Throw("switchFailed")
             /\ UNCHANGED <<startTime, progressLog, lastWaitingAt, maxWaitingGap>>
    /\ UNCHANGED <<sendArgs, status, attempt, tids, response, httpLog, readySeen,
                   firstReply, sendThrows, pollFailed, lastGood, retry, callerPc>>

\* the poll loop's setTimeout(pollIntervalMs) fires; getSlotStatus is issued
PollWake ==
    /\ UNCHANGED <<webVars, calls, scanVars, watchVars>>
    /\ sendPc = "sleep"
    /\ now' = now + SLOT_POLL_INTERVAL_MS
    /\ httpLog' = Append(httpLog, "status")
    /\ sendPc' = "poll"
    /\ UNCHANGED <<sendArgs, status, startTime, attempt, tids, response, progressLog,
                   readySeen, lastWaitingAt, maxWaitingGap, firstReply, sendThrows,
                   sendResult, pollFailed, lastGood, retry, callerPc>>

\* The poll loop's getSlotStatus returns, with a failed query ending
\* ensureSlotReady like a failed first query
PollStatusAbortsOnError ==
    /\ UNCHANGED <<webVars, calls, scanVars, watchVars>>
    /\ sendPc = "poll"
    /\ \E reply \in StatusReplies, d \in CallDurations :
        /\ now' = now + d
        /\ status' = reply
        /\ readySeen' = (readySeen \/ isSlotReady(reply))
        /\ startTime' = startTime
        /\ pollFailed' = (pollFailed \/ reply.error)
        /\ lastGood' = IF reply.error THEN lastGood ELSE reply
        /\ IF reply.error
           THEN /\ Throw("statusError")
                /\ UNCHANGED <<progressLog, httpLog, attempt, tids, lastWaitingAt,
                               maxWaitingGap>>
           ELSE IF isSlotReady(reply)
           THEN /\ ReadyThenSend(progressLog, sendArgs.sink)
                /\ UNCHANGED <<lastWaitingAt, maxWaitingGap>>
           ELSE /\ LoopHead(now', progressLog)
                /\ UNCHANGED <<httpLog, attempt, tids>>
    /\ UNCHANGED <<sendArgs, response, firstReply, sendThrows, retry, callerPc>>

\* the poll loop's getSlotStatus returns
PollStatus ==
    /\ UNCHANGED <<webVars, calls, scanVars, watchVars>>
    /\ sendPc = "poll"
    /\ \E reply \in StatusReplies, d \in CallDurations :
        /\ now' = now + d
        /\ status' = reply
        /\ readySeen' = (readySeen \/ isSlotReady(reply))
        /\ startTime' = startTime
        /\ pollFailed' = (pollFailed \/ reply.error)
        /\ lastGood' = IF reply.error THEN lastGood ELSE reply
        /\ IF isSlotReady(reply)
           THEN /\ ReadyThenSend(progressLog, sendArgs.sink)
                /\ UNCHANGED <<lastWaitingAt, maxWaitingGap>>
           ELSE /\ LoopHead(now', progressLog)
                /\ UNCHANGED <<httpLog, attempt, tids>>
    /\ UNCHANGED <<sendArgs, response, firstReply, sendThrows, retry, callerPc>>

\* One attempt of the send, with a vendor rejection thrown inside the retried
\* function, so that withRetry retries it like a transport failure
SendAttemptRetriesRejected ==
    /\ UNCHANGED <<webVars, calls, scanVars, watchVars>>
    /\ sendPc = "send"
    /\ \E reply \in SendReplies, d \in CallDurations :
        /\ now' = now + d
        /\ IF reply.throws \/ reply.code # 200
           THEN /\ IF attempt = SEND_MAX_RETRIES
                   THEN Throw(IF reply.throws THEN "transport" ELSE "vendorCode")
                   ELSE sendPc' = "backoff" /\ sendResult' = "none"
                /\ sendThrows' = IF reply.throws THEN sendThrows + 1 ELSE sendThrows
                /\ UNCHANGED response
           ELSE /\ response' = reply
                /\ sendPc' = "done"
                /\ sendResult' = ValidateResponse(reply)
                /\ UNCHANGED sendThrows
    /\ UNCHANGED <<sendArgs, status, startTime, attempt, tids, progressLog, httpLog,
                   readySeen, lastWaitingAt, maxWaitingGap, firstReply, pollFailed,
                   lastGood, retry, callerPc>>

\* withRetry: one attempt of the send returns or throws
SendAttempt ==
    /\ UNCHANGED <<webVars, calls, scanVars, watchVars>>
    /\ sendPc = "send"
    /\ \E reply \in SendReplies, d \in CallDurations :
        /\ now' = now + d
        /\ IF reply.throws
           THEN /\ IF attempt = SEND_MAX_RETRIES
                   THEN Throw("transport")
                   ELSE sendPc' = "backoff" /\ sendResult' = "none"
                /\ sendThrows' = sendThrows + 1
                /\ UNCHANGED response
           ELSE /\ response' = reply
                /\ sendPc' = "done"
                /\ sendResult' = ValidateResponse(reply)
                /\ UNCHANGED sendThrows
    /\ UNCHANGED <<sendArgs, status, startTime, attempt, tids, progressLog, httpLog,
                   readySeen, lastWaitingAt, maxWaitingGap, firstReply, pollFailed,
                   lastGood, retry, callerPc>>

\* withRetry: the backoff sleep ends and the next attempt posts the same
\* postBody again
SendRetry ==
    /\ UNCHANGED <<webVars, calls, scanVars, watchVars>>
    /\ sendPc = "backoff"
    /\ now' = now + RetryDelay(attempt)
    /\ attempt' = attempt + 1
    /\ tids' = Append(tids, tids[1])
    /\ httpLog' = Append(httpLog, "send")
    /\ sendPc' = "send"
    /\ UNCHANGED <<sendArgs, status, startTime, response, progressLog, readySeen,
                   lastWaitingAt, maxWaitingGap, firstReply, sendThrows, sendResult,
                   pollFailed, lastGood, retry, callerPc>>

----------------------------------------------------------------------------
(* database.js *)

NoConversation ==
    [id |-> 0, sender_phone |-> NULL, recipient_phone |-> NULL,
     sim_bank_id |-> "", sim_port |-> NULL, slack_thread_ts |-> 0,
     last_message_at |-> 0, iccid |-> NULL]

\* findConversation with a WHERE clause that leaves out the sender
findConversationByRecipient(table, sender, recipient) ==
    LET hits == {i \in 1..Len(table) : table[i].recipient_phone = recipient}
    IN IF hits = {} THEN NoConversation
       ELSE table[CHOOSE i \in hits : \A j \in hits : i <= j]

\* findConversation: SELECT * ... WHERE sender_phone = ? AND recipient_phone = ?
findConversation(table, sender, recipient) ==
    LET hits == {i \in 1..Len(table) :
                    /\ table[i].sender_phone = sender
                    /\ table[i].recipient_phone = recipient}
    IN IF hits = {} THEN NoConversation
       ELSE table[CHOOSE i \in hits : \A j \in hits : i <= j]

\* createConversation with INSERT OR REPLACE: the row of the pair is written
\* anew
createConversationReplaces(table, data, t) ==
    LET row(id) == [id |-> id,
                    sender_phone |-> data.sender_phone,
                    recipient_phone |-> data.recipient_phone,
                    sim_bank_id |-> data.sim_bank_id,
                    sim_port |-> data.sim_port,
                    slack_thread_ts |-> data.slack_thread_ts,
                    last_message_at |-> t,
                    iccid |-> NULL]
        hits == {i \in 1..Len(table) :
                    /\ table[i].sender_phone = data.sender_phone
                    /\ table[i].recipient_phone = data.recipient_phone}
        after == IF hits = {} THEN Append(table, row(Len(table) + 1))
                 ELSE [i \in 1..Len(table) |->
                          IF i \in hits THEN row(table[i].id) ELSE table[i]]
    IN [table |-> after,
        row |-> findConversation(after, data.sender_phone, data.recipient_phone)]

\* createConversation: INSERT OR IGNORE under UNIQUE(sender_phone,
\* recipient_phone), with the AUTOINCREMENT id and the column defaults, then
\* the row read back by sender and recipient
createConversation(table, data, t) ==
    LET taken == \E i \in 1..Len(table) :
                    /\ table[i].sender_phone = data.sender_phone
                    /\ table[i].recipient_phone = data.recipient_phone
        after == IF taken THEN table
                 ELSE Append(table,
                        [id |-> Len(table) + 1,
                         sender_phone |-> data.sender_phone,
                         recipient_phone |-> data.recipient_phone,
                         sim_bank_id |-> data.sim_bank_id,
                         sim_port |-> data.sim_port,
                         slack_thread_ts |-> data.slack_thread_ts,
                         last_message_at |-> t,
                         iccid |-> NULL])
    IN [table |-> after,
        row |-> findConversation(after, data.sender_phone, data.recipient_phone)]

\* updateConversationThread: UPDATE ... SET slack_thread_ts = ?,
\* last_message_at = datetime('now') WHERE id = ?
updateConversationThread(table, threadTs, id, t) ==
    [i \in 1..Len(table) |->
        IF table[i].id = id
        THEN [table[i] EXCEPT !.slack_thread_ts = threadTs, !.last_message_at = t]
        ELSE table[i]]

\* updateConversationTimestamp
updateConversationTimestamp(table, id, t) ==
    [i \in 1..Len(table) |->
        IF table[i].id = id THEN [table[i] EXCEPT !.last_message_at = t]
        ELSE table[i]]

\* updateConversationIccid: a keyed write of the row's ICCID
updateConversationIccid(table, id, iccid) ==
    [i \in 1..Len(table) |->
        IF table[i].id = id THEN [table[i] EXCEPT !.iccid = iccid] ELSE table[i]]

\* isNumberBlocked with no row ever matching
isNumberBlockedNever(table, phone) == FALSE

\* isNumberBlocked: SELECT 1 FROM blocked_numbers WHERE phone_number = ?
isNumberBlocked(table, phone) == phone \in table

\* deliveryTracker.js trackOutboundSms: set the entry, then drop the expired
trackOutboundSms(map, phone, ts, t) ==
    LET key == cleanPhone(phone)
        set == [k \in DOMAIN map \cup {key} |->
                  IF k = key THEN [ts |-> ts, timestamp |-> t] ELSE map[k]]
    IN [k \in {x \in DOMAIN set : ~(set[x].timestamp < t - EXPIRY_MS)} |-> set[k]]

\* deliveryTracker.js getPendingDelivery: the entry's ts, 0 when there is none
getPendingDelivery(map, phone) ==
    IF cleanPhone(phone) \in DOMAIN map THEN map[cleanPhone(phone)].ts ELSE 0

\* deliveryTracker.js clearPendingDelivery
clearPendingDelivery(map, phone) ==
    [k \in DOMAIN map \ {cleanPhone(phone)} |-> map[k]]

\* blockNumber for a number that has no row: INSERT INTO blocked_numbers
blockNumber(table, phone) == table \cup {phone}

\* unblockNumber: DELETE FROM blocked_numbers WHERE phone_number = ?
unblockNumber(table, phone) == table \ {phone}

\* insertMessage writing over the newest row instead of adding one
insertMessageOverwrites(table, convId, direction, content, by) ==
    LET row == [conversation_id |-> convId, direction |-> direction,
                content |-> content, by |-> by]
    IN IF table = <<>> THEN <<row>> ELSE [table EXCEPT ![Len(table)] = row]

\* insertMessage; `by` notes the request that inserted the row
insertMessage(table, convId, direction, content, by) ==
    Append(table, [conversation_id |-> convId, direction |-> direction,
                   content |-> content, by |-> by])

\* simbank.js updateLastKnownSlot
updateLastKnownSlot(map, bankId, slot) ==
    IF slot = NULL \/ slot = <<>> \/ ~Includes(slot, ".") THEN map
    ELSE LET key == <<bankId, SplitFirst(slot, ".")>>
         IN [k \in DOMAIN map \cup {key} |-> IF k = key THEN slot ELSE map[k]]

----------------------------------------------------------------------------
(* slack.js: the handlers that send, after simbank.sendSms *)

\* The handlers that call sendSms. Which of them made the call shows only in
\* what follows the call
Flows == {"mention", "reply"}

\* The handler recording the outbound message whatever sendSms did
AfterSendAlwaysRecords ==
    /\ sendPc = "done"
    /\ callerPc = "awaiting"
    /\ messages' = insertMessage(messages, ThreadConversation.id, "outbound",
                                 ReplyText, 0)
    /\ conversations' =
            updateConversationTimestamp(conversations, ThreadConversation.id, now)
    /\ \E via \in Flows :
        callerPc' = IF via = "mention" THEN "reacting" ELSE "replied"
    /\ UNCHANGED <<now, sendPc, sendArgs, status, startTime, attempt, tids, response,
                   progressLog, httpLog, readySeen, lastWaitingAt, maxWaitingGap,
                   firstReply, sendThrows, sendResult, pollFailed, lastGood,
                   retry, calls, scanVars, watchVars, req, recentMessages, blockedNumbers,
                   lastKnownSlot, slackPosts, ticks, trackVars>>

\* `await simbank.sendSms(...)` settles in the @mention flow or the /reply
\* command. When it resolved: db.insertMessage, db.updateConversationTimestamp
\* and, in the @mention flow, `await addReaction`. When it rejected: the
\* catch block, which reports the failure to the chat
AfterSend ==
    /\ sendPc = "done"
    /\ callerPc = "awaiting"
    /\ IF sendResult = "ok"
       THEN /\ messages' = insertMessage(messages, ThreadConversation.id,
                                         "outbound", ReplyText, 0)
            /\ conversations' =
                    updateConversationTimestamp(conversations,
                                                ThreadConversation.id, now)
            /\ \E via \in Flows :
                callerPc' = IF via = "mention" THEN "reacting" ELSE "replied"
       ELSE /\ callerPc' = "failed"
            /\ UNCHANGED <<messages, conversations>>
    /\ UNCHANGED <<now, sendPc, sendArgs, status, startTime, attempt, tids, response,
                   progressLog, httpLog, readySeen, lastWaitingAt, maxWaitingGap,
                   firstReply, sendThrows, sendResult, pollFailed, lastGood,
                   retry, calls, scanVars, watchVars, req, recentMessages, blockedNumbers,
                   lastKnownSlot, slackPosts, ticks, trackVars>>

\* the @mention flow: addReaction returns (it catches its own failures) and
\* trackOutboundSms(toPhone, event.channel, event.ts) registers the message
ReactionAdded ==
    /\ callerPc = "reacting"
    /\ \E d \in CallDurations : now' = now + d
    /\ pendingDeliveries' =
            trackOutboundSms(pendingDeliveries, sendArgs.toPhone, tracked + 1, now')
    /\ tracked' = tracked + 1
    /\ callerPc' = "tracked"
    /\ UNCHANGED <<sendPc, sendArgs, status, startTime, attempt, tids, response,
                   progressLog, httpLog, readySeen, lastWaitingAt, maxWaitingGap,
                   firstReply, sendThrows, sendResult, pollFailed, lastGood,
                   retry, calls, scanVars, watchVars, req, recentMessages, conversations, messages,
                   blockedNumbers, lastKnownSlot, slackPosts, ticks, reactions>>

NextSend ==
    \/ sendSms
    \/ FirstStatus
    \/ activateSlot
    \/ PollWake
    \/ PollStatus
    \/ SendAttempt
    \/ SendRetry
    \/ AfterSend
    \/ ReactionAdded

SpecSend == InitSend /\ [][NextSend]_vars

\* withRetry on its own; its steps are taken as long as one is enabled
SpecRetry == InitSend /\ [][NextRetry]_vars /\ WF_vars(NextRetry)

\* sendSms with a progress sink that throws
NextSink ==
    \/ sendSmsFaultySink
    \/ FirstStatus
    \/ activateSlot
    \/ PollWake
    \/ PollStatus
    \/ SendAttempt
    \/ SendRetry

SpecSink == InitSend /\ [][NextSink]_vars

----------------------------------------------------------------------------
(* webhook.js: router.post('/sms') *)

\* A successful chat.postMessage: the ts Slack gives the new message
NextTs == Len(slackPosts) + 1
Posted(fn, r, thread) ==
    Append(slackPosts, [fn |-> fn, by |-> r, thread |-> thread, ts |-> NextTs])

\* the HTTP status each answer is sent with: res.status(400), res.status(500),
\* res.status(200) with a status token
HttpStatus(answer) ==
    CASE answer = "400" -> 400
      [] answer = "500" -> 500
      [] OTHER -> 200

\* res.status(...).json(...): the request is answered and its handler ends
Respond(rec, answer) ==
    [rec EXCEPT !.pc = "done", !.resp = answer, !.http = HttpStatus(answer)]

\* The spam gate with the short-code filter applied before the verification
\* check
SpamGateShortCodeFirst(isVerification, senderPhone) ==
    IF isShortCode(senderPhone) THEN "shortcode"
    ELSE IF ~isVerification THEN "classify"
    ELSE "none"

\* The spam gate without the short-code filter
SpamGateNoShortCode(isVerification, senderPhone) ==
    IF ~isVerification THEN "classify" ELSE "none"

\* Which spam check a message that passed dedupe and blocklist meets: the
\* short-code filter, the classifier, or none (verification codes)
SpamGate(isVerification, senderPhone) ==
    IF ~isVerification /\ isShortCode(senderPhone) THEN "shortcode"
    ELSE IF ~isVerification THEN "classify"
    ELSE "none"

\* Where the handler suspends next once the spam checks are passed: on
\* getSlotStatus (a request to the bank, when the bank is configured and the
\* slot known), else on the Monday.com lookup
AfterSpam(rec) ==
    IF rec.slot # NULL /\ rec.bank \in ConfiguredBanks THEN "iccid" ELSE "monday"

\* The handler from the request's arrival to its first suspension:
\* validation, slot tracking, delivery report, dedupe, blocklist, spam gate
PostSms(r, sender, receiver, content, origin) ==
    /\ req[r].pc = "new"
    /\ \A q \in Reqs : q < r => req[q].pc # "new"
    /\ LET senderPhone == normalizePhone(sender)
            recipientPhone == normalizePhone(receiver)
            rec == [NoRequest EXCEPT !.sender = senderPhone,
                                     !.recipient = recipientPhone,
                                     !.content = content, !.bank = origin[1],
                                     !.slot = origin[2], !.at = now]
            deliveryPhone == FirstPhoneIn(content)
            pending == IF deliveryPhone = NULL THEN 0
                       ELSE getPendingDelivery(pendingDeliveries, deliveryPhone)
            key == getMessageKey(senderPhone, recipientPhone, content)
            seen == isDuplicateMessage(recentMessages, key, now)
            isVerification == isVerificationCode(content)
            gate == SpamGate(isVerification, senderPhone)
        IN IF sender = <<>> \/ receiver = <<>> \/ content = <<>>
              \/ senderPhone = NULL \/ recipientPhone = NULL
           THEN /\ req' = [req EXCEPT ![r] = Respond(rec, "400")]
                /\ UNCHANGED <<lastKnownSlot, recentMessages>>
           ELSE /\ lastKnownSlot' = updateLastKnownSlot(lastKnownSlot, origin[1], origin[2])
                /\ IF IsDeliveryReport(content)
                   THEN /\ req' = [req EXCEPT ![r] =
                             IF pending # 0
                             THEN [rec EXCEPT !.deliveryPhone = deliveryPhone,
                                              !.pendingTs = pending,
                                              !.pc = "react"]
                             ELSE Respond(rec, "delivery_report_processed")]
                        /\ UNCHANGED recentMessages
                   ELSE /\ recentMessages' = seen.map
                        /\ req' = [req EXCEPT ![r] =
                             IF seen.dup THEN Respond(rec, "duplicate_skipped")
                             ELSE IF isNumberBlocked(blockedNumbers, senderPhone)
                             THEN Respond(rec, "blocked")
                             ELSE [rec EXCEPT
                                     !.isVerification = isVerification,
                                     !.classified = (gate = "classify"),
                                     !.spam = IF gate = "shortcode"
                                              THEN "shortcode" ELSE "none",
                                     !.pc = CASE gate = "shortcode" -> "postSpam"
                                              [] gate = "classify" -> "classify"
                                              [] OTHER -> AfterSpam(rec)]]
    /\ UNCHANGED <<now, sendVars, calls, scanVars, watchVars, conversations, messages, blockedNumbers,
                   slackPosts, ticks, trackVars>>

\* A request arrives: any sender, content and origin
ReceiveSms(r) ==
    \E sender \in Senders, receiver \in Receivers, content \in Contents,
       origin \in Origins :
        PostSms(r, sender, receiver, content, origin)

\* A delivery report arrives
ReceiveReport(r) ==
    \E sender \in {SenderA10, SenderBlocked}, receiver \in Receivers,
       content \in Reports, origin \in Origins :
        PostSms(r, sender, receiver, content, origin)

\* processDeliveryReport: slack.addReaction returns (it catches its own
\* failures, so it never throws; Slack refuses a reaction the message already
\* has); the pending entry is cleared and the request answered
ReactReturns(r) ==
    /\ req[r].pc = "react"
    /\ \E ok \in BOOLEAN :
        LET reaction == [ts |-> req[r].pendingTs,
                         name |-> DeliveryEmoji(req[r].content)]
        IN reactions' = IF ok /\ reaction \notin Range(reactions)
                        THEN Append(reactions, reaction) ELSE reactions
    /\ pendingDeliveries' = clearPendingDelivery(pendingDeliveries,
                                                 req[r].deliveryPhone)
    /\ req' = [req EXCEPT ![r] = Respond(req[r], "delivery_report_processed")]
    /\ UNCHANGED <<now, sendVars, calls, scanVars, watchVars, recentMessages, conversations, messages,
                   blockedNumbers, lastKnownSlot, slackPosts, ticks, tracked>>

\* slack.js, the reply handler after a successful send: the outbound message
\* (Slack ts: a fresh one) is tracked under the number it was sent to
TrackOutbound ==
    /\ tracked < MaxTracks
    /\ \E phone \in OutboundPhones :
        pendingDeliveries' =
            trackOutboundSms(pendingDeliveries, phone, tracked + 1, now)
    /\ tracked' = tracked + 1
    /\ UNCHANGED <<now, sendVars, calls, scanVars, watchVars, req, recentMessages, conversations,
                   messages, blockedNumbers, lastKnownSlot, slackPosts, ticks,
                   reactions>>

\* What client.messages.create does: it throws ("error"), or answers with a
\* text that is no JSON ("unparseable"), with JSON whose spam field is true
\* ("spam") or with JSON whose spam field is anything else ("notSpam")
ClassifierAnswers == {"error", "unparseable", "spam", "notSpam"}

\* classifyMessage reporting a message it could not classify as spam
classifyMessageFailsClosed(answer) ==
    IF answer \in {"error", "unparseable"}
    THEN [spam |-> TRUE, error |-> TRUE]
    ELSE [spam |-> answer = "spam", error |-> FALSE]

\* spamFilter.js classifyMessage: `spam: result.spam === true`, and the catch
\* block's `spam: false` for what the call or JSON.parse throws
classifyMessage(answer) ==
    IF answer \in {"error", "unparseable"}
    THEN [spam |-> FALSE, error |-> TRUE]
    ELSE [spam |-> answer = "spam", error |-> FALSE]

\* classifyMessage returns its verdict (spam = false also when it failed)
ClassifyReturns(r) ==
    /\ req[r].pc = "classify"
    /\ \E answer \in ClassifierAnswers :
        LET spamResult == classifyMessage(answer)
        IN req' = [req EXCEPT
                    ![r].answer = answer,
                    ![r].spam = IF spamResult.spam THEN "classifier" ELSE "none",
                    ![r].pc = IF spamResult.spam THEN "postSpam"
                              ELSE AfterSpam(req[r])]
    /\ UNCHANGED <<now, sendVars, calls, scanVars, watchVars, recentMessages, conversations, messages,
                   blockedNumbers, trackVars, lastKnownSlot, slackPosts, ticks>>

\* postSpamMessage returns, or throws into the handler's catch (500)
PostSpamReturns(r) ==
    /\ req[r].pc = "postSpam"
    /\ \E ok \in BOOLEAN :
        IF ok
        THEN /\ slackPosts' = Posted("postSpamMessage", r, 0)
             /\ req' = [req EXCEPT ![r] = Respond(req[r], "spam_filtered")]
        ELSE /\ req' = [req EXCEPT ![r] = Respond(req[r], "500")]
             /\ UNCHANGED slackPosts
    /\ UNCHANGED <<now, sendVars, calls, scanVars, watchVars, recentMessages, conversations, messages,
                   blockedNumbers, trackVars, lastKnownSlot, ticks>>

\* getSlotStatus returns: the slot's ICCID, or none
IccidReturns(r) ==
    /\ req[r].pc = "iccid"
    /\ \E iccid \in Iccids :
        req' = [req EXCEPT ![r].iccid = iccid, ![r].pc = "monday"]
    /\ UNCHANGED <<now, sendVars, calls, scanVars, watchVars, recentMessages, conversations, messages,
                   blockedNumbers, trackVars, lastKnownSlot, slackPosts, ticks>>

\* The Monday.com lookup returns (or fails, which is caught), and the handler
\* runs on to the chat post: find or create the conversation, update its
\* ICCID, insert the message, choose between a new thread and a reply
FindOrCreate(r) ==
    /\ req[r].pc = "monday"
    /\ LET rec == req[r]
           found == findConversation(conversations, rec.sender, rec.recipient)
           created == createConversation(conversations,
                        [sender_phone |-> rec.sender,
                         recipient_phone |-> rec.recipient,
                         sim_bank_id |-> rec.bank,
                         sim_port |-> IF rec.slot # NULL THEN rec.slot
                                      ELSE SlotUnknown,
                         slack_thread_ts |-> 0], now)
           conversation == IF found.id = 0 THEN created.row ELSE found
           isNewConversation == found.id = 0 /\ conversation.slack_thread_ts = 0
           newIccid == /\ found.id # 0
                       /\ rec.iccid # NULL
                       /\ found.iccid # rec.iccid
           table == IF found.id = 0 THEN created.table
                    ELSE IF newIccid
                    THEN updateConversationIccid(conversations, found.id, rec.iccid)
                    ELSE conversations
       IN /\ conversations' = table
          /\ messages' = insertMessage(messages, conversation.id, "inbound",
                                       rec.content, r)
          /\ req' = [req EXCEPT
                ![r].conv = conversation.id,
                ![r].thread = conversation.slack_thread_ts,
                ![r].pc = IF isNewConversation \/ conversation.slack_thread_ts = 0
                          THEN "postNew" ELSE "postThread"]
    /\ UNCHANGED <<now, sendVars, calls, scanVars, watchVars, recentMessages, blockedNumbers, trackVars, lastKnownSlot,
                   slackPosts, ticks>>

\* postNewConversation returns the new thread's ts, which is stored on the
\* conversation, or throws into the handler's catch (500)
PostNewReturns(r) ==
    /\ req[r].pc = "postNew"
    /\ \E ok \in BOOLEAN :
        IF ok
        THEN /\ slackPosts' = Posted("postNewConversation", r, 0)
             /\ conversations' = updateConversationThread(conversations, NextTs,
                                                          req[r].conv, now)
             /\ req' = [req EXCEPT ![r] = Respond(req[r], "ok")]
        ELSE /\ req' = [req EXCEPT ![r] = Respond(req[r], "500")]
             /\ UNCHANGED <<slackPosts, conversations>>
    /\ UNCHANGED <<now, sendVars, calls, scanVars, watchVars, recentMessages, messages, blockedNumbers, trackVars,
                   lastKnownSlot, ticks>>

\* the reply branch storing the post's own ts whatever thread Slack reports
PostThreadReturnsAlwaysStores(r) ==
    /\ req[r].pc = "postThread"
    /\ \E outcome \in {"replied", "moved", "failed"} :
        CASE outcome = "replied" ->
                /\ slackPosts' = Posted("postInboundToThread", r, req[r].thread)
                /\ conversations' = updateConversationThread(conversations, NextTs,
                                                             req[r].conv, now)
                /\ req' = [req EXCEPT ![r] = Respond(req[r], "ok")]
          [] outcome = "moved" ->
                /\ slackPosts' = Posted("postInboundToThread", r, 0)
                /\ conversations' = updateConversationThread(conversations, NextTs,
                                                             req[r].conv, now)
                /\ req' = [req EXCEPT ![r] = Respond(req[r], "ok")]
          [] OTHER ->
                /\ req' = [req EXCEPT ![r] = Respond(req[r], "500")]
                /\ UNCHANGED <<slackPosts, conversations>>
    /\ UNCHANGED <<now, sendVars, calls, scanVars, watchVars, recentMessages, messages, blockedNumbers, trackVars,
                   lastKnownSlot, ticks>>

\* postInboundToThread returns actualThreadTs: the thread replied in, or the
\* post's own ts when Slack made it a thread of its own; or it throws (500)
PostThreadReturns(r) ==
    /\ req[r].pc = "postThread"
    /\ \E outcome \in {"replied", "moved", "failed"} :
        CASE outcome = "replied" ->
                /\ slackPosts' = Posted("postInboundToThread", r, req[r].thread)
                /\ conversations' = updateConversationTimestamp(conversations,
                                                                req[r].conv, now)
                /\ req' = [req EXCEPT ![r] = Respond(req[r], "ok")]
          [] outcome = "moved" ->
                /\ slackPosts' = Posted("postInboundToThread", r, 0)
                /\ conversations' = updateConversationThread(conversations, NextTs,
                                                             req[r].conv, now)
                /\ req' = [req EXCEPT ![r] = Respond(req[r], "ok")]
          [] OTHER ->
                /\ req' = [req EXCEPT ![r] = Respond(req[r], "500")]
                /\ UNCHANGED <<slackPosts, conversations>>
    /\ UNCHANGED <<now, sendVars, calls, scanVars, watchVars, recentMessages, messages, blockedNumbers, trackVars,
                   lastKnownSlot, ticks>>

\* Time passes: half the dedupe window
Tick ==
    /\ ticks < MaxTicks
    /\ ticks' = ticks + 1
    /\ now' = now + (DEDUPE_WINDOW_MS \div 2)
    /\ UNCHANGED <<sendVars, calls, scanVars, watchVars, req, recentMessages, conversations, messages,
                   blockedNumbers, trackVars, lastKnownSlot, slackPosts>>

Init ==
    /\ now = 0
    /\ InitSendVars
    /\ InitWebVars

Next ==
    \/ \E r \in Reqs : ReceiveSms(r)
    \/ \E r \in Reqs : ClassifyReturns(r)
    \/ \E r \in Reqs : PostSpamReturns(r)
    \/ \E r \in Reqs : IccidReturns(r)
    \/ \E r \in Reqs : FindOrCreate(r)
    \/ \E r \in Reqs : PostNewReturns(r)
    \/ \E r \in Reqs : PostThreadReturns(r)
    \/ Tick

Spec == Init /\ [][Next]_vars

----------------------------------------------------------------------------
(* The store under inbound messages, outbound sends and /block, /unblock *)

\* utils.js parsePhoneFromCommand for a command text that is a phone number
\* and nothing else: the whole text matches /^(\+?[\d\s\-\(\)]+)/
parsePhoneFromCommand(text) == normalizePhone(text)

\* the text /block and /unblock are given
CommandTexts == {SenderA10}

\* slack.js /block: a number that is blocked already is left as it is
BlockCommand ==
    /\ \E text \in CommandTexts :
        LET phone == parsePhoneFromCommand(text)
        IN blockedNumbers' =
             IF isNumberBlocked(blockedNumbers, phone) THEN blockedNumbers
             ELSE blockNumber(blockedNumbers, phone)
    /\ UNCHANGED <<now, sendVars, calls, scanVars, watchVars, req, recentMessages, conversations,
                   messages, lastKnownSlot, slackPosts, ticks, trackVars>>

\* slack.js /unblock with command.text = text: a number that is not blocked
\* is left as it is
UnblockNumberCommand(text) ==
    /\ LET phone == parsePhoneFromCommand(text)
       IN blockedNumbers' =
             IF ~isNumberBlocked(blockedNumbers, phone) THEN blockedNumbers
             ELSE unblockNumber(blockedNumbers, phone)
    /\ UNCHANGED <<now, sendVars, calls, scanVars, watchVars, req, recentMessages, conversations,
                   messages, lastKnownSlot, slackPosts, ticks, trackVars>>

UnblockCommand ==
    \E text \in CommandTexts : UnblockNumberCommand(text)

\* One inbound message from the bank's slot 4.07: of the thread's
\* counterpart, or of a number that has no conversation yet and is blocked
\* at times
ReceiveOne ==
    \E pair \in {<<<<"1", "5">>, <<"1", "6">>>>,
                  <<SenderA10, <<"1", "6">>>>} :
        PostSms(1, pair[1], pair[2], <<"h", "i">>, <<"50004", Slot407>>)

\* An outbound message through a slot given as 'unknown', for which sendSms
\* skips the readiness check
sendSmsUnknownSlot ==
    sendSmsCall("50004", SlotUnknown, ThreadConversation.sender_phone, "none")

NextStore ==
    \/ ReceiveOne
    \/ \E r \in Reqs : ClassifyReturns(r)
    \/ \E r \in Reqs : PostSpamReturns(r)
    \/ \E r \in Reqs : IccidReturns(r)
    \/ \E r \in Reqs : FindOrCreate(r)
    \/ \E r \in Reqs : PostNewReturns(r)
    \/ \E r \in Reqs : PostThreadReturns(r)
    \/ BlockCommand
    \/ UnblockCommand
    \/ sendSmsUnknownSlot
    \/ SendAttempt
    \/ SendRetry
    \/ AfterSend
    \/ ReactionAdded

SpecStore == InitSend /\ [][NextStore]_vars

----------------------------------------------------------------------------
(* The inbound webhook for a sender that is blocked, and /unblock *)

\* a message of the blocked number arrives
ReceiveFromBlocked(r) ==
    \E receiver \in Receivers, origin \in Origins :
        PostSms(r, SenderBlocked, receiver, <<"h", "i">>, origin)

\* /unblock with the blocked number
UnblockSender == UnblockNumberCommand(SenderBlocked)

NextUnblock ==
    \/ \E r \in Reqs : ReceiveFromBlocked(r)
    \/ \E r \in Reqs : ClassifyReturns(r)
    \/ \E r \in Reqs : PostSpamReturns(r)
    \/ \E r \in Reqs : IccidReturns(r)
    \/ \E r \in Reqs : FindOrCreate(r)
    \/ \E r \in Reqs : PostNewReturns(r)
    \/ \E r \in Reqs : PostThreadReturns(r)
    \/ UnblockSender
    \/ Tick

SpecUnblock == Init /\ [][NextUnblock]_vars

----------------------------------------------------------------------------
(* Delivery reports and the outbound messages they are about *)

NextDelivery ==
    \/ \E r \in Reqs : ReceiveReport(r)
    \/ \E r \in Reqs : ReactReturns(r)
    \/ TrackOutbound
    \/ Tick

SpecDelivery == Init /\ [][NextDelivery]_vars

----------------------------------------------------------------------------
(* isDuplicateMessage on its own, with a clock *)

\* isDuplicateMessage calls the model makes
MaxCalls == 3

\* the (sender, recipient, content) triples of the calls
Triples ==
    {<<normalizePhone(s), normalizePhone(r), c>> :
        s \in {SenderA10, SenderShort}, r \in Receivers,
        c \in {<<"h", "i">>, <<"G", "-", "1", "2", "3", "4", "5", "6">>}}

\* isDuplicateMessage(sender, recipient, content) is called at time now
DedupeCall ==
    /\ Len(calls) < MaxCalls
    /\ \E triple \in Triples :
        LET key == getMessageKey(triple[1], triple[2], triple[3])
            seen == isDuplicateMessage(recentMessages, key, now)
        IN /\ recentMessages' = seen.map
           /\ calls' = Append(calls, [triple |-> triple, at |-> now,
                                      result |-> seen.dup])
    /\ UNCHANGED <<now, sendVars, scanVars, watchVars, req, conversations, messages, blockedNumbers, trackVars,
                   lastKnownSlot, slackPosts, ticks>>

\* Time passes between calls: a millisecond, or a millisecond less than the
\* dedupe window
DedupeTick ==
    /\ ticks < MaxTicks
    /\ ticks' = ticks + 1
    /\ \E d \in {1, DEDUPE_WINDOW_MS - 1} : now' = now + d
    /\ UNCHANGED <<sendVars, calls, scanVars, watchVars, req, recentMessages, conversations, messages,
                   blockedNumbers, trackVars, lastKnownSlot, slackPosts>>

NextDedupe ==
    \/ DedupeCall
    \/ DedupeTick

SpecDedupe == Init /\ [][NextDedupe]_vars

----------------------------------------------------------------------------
(* createConversation on its own *)

\* what createConversation is called with: the pair of the thread's
\* conversation or another pair, with this bank, slot and thread or others
CreateInputs ==
    [sender_phone : {ThreadConversation.sender_phone, normalizePhone(SenderA10)},
     recipient_phone : {ThreadConversation.recipient_phone},
     sim_bank_id : {"50004", "59999"},
     sim_port : {Slot407, SlotUnknown},
     slack_thread_ts : {0, 7}]

\* createConversation(data) is called at time now
CreateCall ==
    /\ Len(calls) < MaxCalls
    /\ \E data \in CreateInputs :
        LET created == createConversation(conversations, data, now)
        IN /\ conversations' = created.table
           /\ calls' = Append(calls, [data |-> data, row |-> created.row])
    /\ UNCHANGED <<now, sendVars, scanVars, watchVars, req, recentMessages, messages, blockedNumbers,
                   lastKnownSlot, slackPosts, ticks, trackVars>>

\* time passes between the calls
CreateTick ==
    /\ ticks < MaxTicks
    /\ ticks' = ticks + 1
    /\ now' = now + 1000
    /\ UNCHANGED <<sendVars, calls, scanVars, watchVars, req, recentMessages, conversations, messages,
                   blockedNumbers, trackVars, lastKnownSlot, slackPosts>>

NextCreate ==
    \/ CreateCall
    \/ CreateTick

SpecCreate == InitSend /\ [][NextCreate]_vars

----------------------------------------------------------------------------
(* isDuplicateMessage on a map that is about as large as the sweep threshold *)

DigitChar(n) == <<"0", "1", "2", "3", "4", "5", "6", "7", "8", "9">>[n + 1]

\* the key of the message "x" of sender number i
FillerKey(i) ==
    getMessageKey(<<"+", DigitChar(i \div 100), DigitChar((i \div 10) % 10),
                    DigitChar(i % 10)>>,
                  <<"+", "9">>, <<"x">>)

\* when the message of sender i was seen: at time 0 or at time 1
FillerTime(i) == i % 2

\* a map of n messages seen before
FillerMap(n) ==
    [k \in {FillerKey(i) : i \in 1..n} |->
        FillerTime(CHOOSE i \in 1..n : FillerKey(i) = k)]

\* the sizes of the map at the start: below, at and above the threshold
FillCounts ==
    {DEDUPE_SWEEP_SIZE - 1, DEDUPE_SWEEP_SIZE, DEDUPE_SWEEP_SIZE + 1}

\* The map holds messages seen a window ago
InitSweep ==
    /\ now = DEDUPE_WINDOW_MS
    /\ InitSendVars
    /\ req = [r \in Reqs |-> NoRequest]
    /\ recentMessages \in {FillerMap(n) : n \in FillCounts}
    /\ conversations = <<>>
    /\ messages = <<>>
    /\ blockedNumbers = {PhoneBlocked}
    /\ lastKnownSlot = <<>>
    /\ slackPosts = <<>>
    /\ ticks = 0
    /\ pendingDeliveries = <<>>
    /\ reactions = <<>>
    /\ tracked = 0
    /\ calls = <<>>

SpecSweep == InitSweep /\ [][NextDedupe]_vars

----------------------------------------------------------------------------
(* slotScan.js: runSlotScan and stopScan *)

\* the positions at which a runSlotScan call is suspended on an await
ScanAwaits == {"postStart", "postSlot", "switching", "postResult", "slotWait",
               "summary"}

\* `finally { activeScan = null }`: the call ends, by a throw or a return
Finally(id, pc) ==
    /\ activeScan' = 0
    /\ scans' = [scans EXCEPT ![id].pc = pc]

\* the head of the loop: `activeScan.currentSlot = slotPos; activeScan.status
\* = ...` on whatever object activeScan refers to now (a TypeError, and the
\* finally block, when it is null), then the await of the slot's start post
EnterSlot(id, slotPos) ==
    IF activeScan = 0 THEN Finally(id, "failed")
    ELSE /\ scans' = [[scans EXCEPT ![activeScan].currentSlot = slotPos,
                                   ![activeScan].status = "slot"]
                            EXCEPT ![id].slotPos = slotPos,
                                   ![id].pc = "postSlot"]
         /\ UNCHANGED activeScan

\* runSlotScan is called: 'A slot scan is already in progress' when
\* activeScan is set, else a new state object, and the await of the start post
runSlotScan(id) ==
    /\ scans[id].pc = "new"
    /\ \A other \in Scans : other < id => scans[other].pc # "new"
    /\ IF activeScan # 0
       THEN /\ scans' = [scans EXCEPT ![id].pc = "rejected"]
            /\ UNCHANGED activeScan
       ELSE /\ activeScan' = id
            /\ scans' = [scans EXCEPT ![id] = [pc |-> "postStart", slotPos |-> 0,
                                              currentSlot |-> 0,
                                              status |-> "starting"]]
    /\ UNCHANGED <<now, sendVars, webVars, calls, switchLog, watchVars>>

\* the start post returns and the loop begins with slot 1, or it throws
PostStartReturns(id) ==
    /\ scans[id].pc = "postStart"
    /\ \E ok \in BOOLEAN :
        IF ok THEN EnterSlot(id, 1) ELSE Finally(id, "failed")
    /\ UNCHANGED <<now, sendVars, webVars, calls, switchLog, watchVars>>

\* the slot's start post returns and switchBankToSlot(bank, slotPos) is
\* called, which issues its first switch commands at once; or the post throws
PostSlotReturns(id) ==
    /\ scans[id].pc = "postSlot"
    /\ \E ok \in BOOLEAN :
        IF ok
        THEN /\ switchLog' = Append(switchLog,
                                    [by |-> id, slot |-> scans[id].slotPos])
             /\ scans' = [scans EXCEPT ![id].pc = "switching"]
             /\ UNCHANGED activeScan
        ELSE /\ Finally(id, "failed")
             /\ UNCHANGED switchLog
    /\ UNCHANGED <<now, sendVars, webVars, calls, watchVars>>

\* the switch commands, the verification delay and verifySlotActivation have
\* returned (none of them throws); `activeScan.simStats` is read, then the
\* result post awaited
SwitchReturns(id) ==
    /\ scans[id].pc = "switching"
    /\ IF activeScan = 0 THEN Finally(id, "failed")
       ELSE /\ scans' = [scans EXCEPT ![id].pc = "postResult"]
            /\ UNCHANGED activeScan
    /\ UNCHANGED <<now, sendVars, webVars, calls, switchLog, watchVars>>

\* the result post returns, `activeScan.arrivals.length` is read and the
\* three minutes of the slot are awaited; or the post throws
PostResultReturns(id) ==
    /\ scans[id].pc = "postResult"
    /\ \E ok \in BOOLEAN :
        IF ok /\ activeScan # 0
        THEN /\ scans' = [scans EXCEPT ![id].pc = "slotWait"]
             /\ UNCHANGED activeScan
        ELSE Finally(id, "failed")
    /\ UNCHANGED <<now, sendVars, webVars, calls, switchLog, watchVars>>

\* the slot's time is over: `activeScan.arrivals` and `activeScan.slotResults`
\* are used, then the next slot begins, or, after the last, `activeScan.status
\* = 'complete'` and the summary posts
SlotWaitEnds(id) ==
    /\ scans[id].pc = "slotWait"
    /\ IF activeScan = 0 THEN Finally(id, "failed")
       ELSE IF scans[id].slotPos < ScanSlots
       THEN EnterSlot(id, scans[id].slotPos + 1)
       ELSE /\ scans' = [[scans EXCEPT ![activeScan].status = "complete"]
                               EXCEPT ![id].pc = "summary"]
            /\ UNCHANGED activeScan
    /\ UNCHANGED <<now, sendVars, webVars, calls, switchLog, watchVars>>

\* the summary posts return, or one throws: the finally block either way
SummaryReturns(id) ==
    /\ scans[id].pc = "summary"
    /\ \E ok \in BOOLEAN : Finally(id, IF ok THEN "done" ELSE "failed")
    /\ UNCHANGED <<now, sendVars, webVars, calls, switchLog, watchVars>>

\* stopScan finds a scan: `activeScan.status = 'stopped'; activeScan = null`
stopScan ==
    /\ activeScan # 0
    /\ Cardinality({id \in Scans : scans[id].status = "stopped"}) < MaxStops
    /\ scans' = [scans EXCEPT ![activeScan].status = "stopped"]
    /\ activeScan' = 0
    /\ UNCHANGED <<now, sendVars, webVars, calls, switchLog, watchVars>>

NextScan ==
    \/ \E id \in Scans : runSlotScan(id)
    \/ \E id \in Scans : PostStartReturns(id)
    \/ \E id \in Scans : PostSlotReturns(id)
    \/ \E id \in Scans : SwitchReturns(id)
    \/ \E id \in Scans : PostResultReturns(id)
    \/ \E id \in Scans : SlotWaitEnds(id)
    \/ \E id \in Scans : SummaryReturns(id)
    \/ stopScan

SpecScan == Init /\ [][NextScan]_vars

----------------------------------------------------------------------------
(* slack.js: the SIM activation watches *)

SIM_WATCH_DURATION_MS == 10 * 60 * 1000

\* activations the model follows, and inbound messages posted to a watch
MaxWatches == 2
MaxWatchPosts == 2

\* normalizeToTenDigits: the digits, without a leading 1 when there are 11
normalizeToTenDigits(phone) ==
    LET digits == SelectSeq(phone, LAMBDA c : c \in Digits)
    IN IF Len(digits) = 11 /\ Head(digits) = "1" THEN Tail(digits) ELSE digits

\* the numbers that are activated: the gateway's own receiving numbers
WatchNumbers == Receivers

\* message.ts of the chat message that asked for the activation: a fresh ts
MessageTs == Len(slackPosts) + 1

\* activations so far: each one answered 'Activated!' in the message's thread
Activations == {i \in 1..Len(slackPosts) : slackPosts[i].fn = "say"}
WatchPosts ==
    {i \in 1..Len(slackPosts) : slackPosts[i].fn = "checkSimActivationWatch"}

\* simActivationWatches.set(normalizedWatchPhone, { threadTs, channel,
\* endTime, name }) with endTime = Date.now() + SIM_WATCH_DURATION_MS
SetWatch(map, number, name) ==
    LET key == normalizeToTenDigits(number)
    IN [k \in DOMAIN map \cup {key} |->
          IF k = key THEN [threadTs |-> MessageTs,
                           endTime |-> now + SIM_WATCH_DURATION_MS,
                           name |-> name]
          ELSE map[k]]

\* the Textchest flow: activateSim returned, 'Activated!' was said in the
\* thread, and the watch is set; no timer is set for it
ActivateTextchest ==
    /\ Cardinality(Activations) < MaxWatches
    /\ \E number \in WatchNumbers :
        simActivationWatches' = SetWatch(simActivationWatches, number, "Textchest")
    /\ slackPosts' = Append(slackPosts, [fn |-> "say", by |-> 0,
                                         thread |-> MessageTs, ts |-> MessageTs])
    /\ UNCHANGED <<now, sendVars, calls, scanVars, watchTimers, req,
                   recentMessages, conversations, messages, blockedNumbers,
                   lastKnownSlot, ticks, trackVars>>

\* the SIM-bank flow: activateSlot returned, 'Activated!' was said, the watch
\* is set and a cleanup timer of SIM_WATCH_DURATION_MS started
ActivateSimBank ==
    /\ Cardinality(Activations) < MaxWatches
    /\ \E number \in WatchNumbers :
        /\ simActivationWatches' = SetWatch(simActivationWatches, number, "record")
        /\ watchTimers' = watchTimers \cup
                {[phone |-> normalizeToTenDigits(number), threadTs |-> MessageTs,
                  due |-> now + SIM_WATCH_DURATION_MS]}
    /\ slackPosts' = Append(slackPosts, [fn |-> "say", by |-> 0,
                                         thread |-> MessageTs, ts |-> MessageTs])
    /\ UNCHANGED <<now, sendVars, calls, scanVars, req, recentMessages,
                   conversations, messages, blockedNumbers, lastKnownSlot, ticks,
                   trackVars>>

\* a cleanup timer fires: the watch is deleted when it is still the one the
\* timer was set for (`watch.threadTs === message.ts`); the 'Watch ended'
\* post is not awaited and its failure is swallowed
WatchTimerFires ==
    /\ \E t \in watchTimers :
        /\ now >= t.due
        /\ watchTimers' = watchTimers \ {t}
        /\ simActivationWatches' =
            IF /\ t.phone \in DOMAIN simActivationWatches
               /\ simActivationWatches[t.phone].threadTs = t.threadTs
            THEN [k \in DOMAIN simActivationWatches \ {t.phone} |->
                    simActivationWatches[k]]
            ELSE simActivationWatches
    /\ UNCHANGED <<now, sendVars, calls, scanVars, webVars>>

\* checkSimActivationWatch(recipientPhone, senderPhone, content), as the
\* webhook calls it for a routed message: the message is posted into the
\* watch's thread when `watch && Date.now() < watch.endTime` (a failing post
\* is caught), and nothing happens otherwise
checkSimActivationWatch ==
    /\ Cardinality(WatchPosts) < MaxWatchPosts
    /\ \E receiver \in WatchNumbers :
        LET normalizedPhone == normalizeToTenDigits(normalizePhone(receiver))
        IN /\ normalizedPhone \in DOMAIN simActivationWatches
           /\ now < simActivationWatches[normalizedPhone].endTime
           /\ \E ok \in BOOLEAN :
                slackPosts' =
                    IF ok THEN Posted("checkSimActivationWatch", 0,
                                      simActivationWatches[normalizedPhone].threadTs)
                    ELSE slackPosts
    /\ UNCHANGED <<now, sendVars, calls, scanVars, watchVars, req,
                   recentMessages, conversations, messages, blockedNumbers,
                   lastKnownSlot, ticks, trackVars>>

\* time passes: half the life of a watch
WatchTick ==
    /\ ticks < MaxTicks + 1
    /\ ticks' = ticks + 1
    /\ now' = now + (SIM_WATCH_DURATION_MS \div 2)
    /\ UNCHANGED <<sendVars, calls, scanVars, watchVars, req, recentMessages,
                   conversations, messages, blockedNumbers, trackVars,
                   lastKnownSlot, slackPosts>>

NextWatch ==
    \/ ActivateTextchest
    \/ ActivateSimBank
    \/ WatchTimerFires
    \/ checkSimActivationWatch
    \/ WatchTick

\* a timer that is due fires, and the other steps are not held back for ever
SpecWatch == Init /\ [][NextWatch]_vars /\ WF_vars(NextWatch)

----------------------------------------------------------------------------
(* Claims about sendSms and ensureSlotReady, checked under SpecSend *)

\* A status reply that shows the slot active and Registered - Ready (st = 3)
ShowsReady(r) == ~r.error /\ r.active = 1 /\ r.st = 3

\* C3: a send command (POST goip_post_sms) is issued only after a status
\* query of the same sendSms call reported the slot active and Ready, for
\* every slot argument
C3_SendOnlyAfterReady ==
    "send" \in Range(httpLog) => readySeen

\* C4: when the first status query reports the slot active and Ready,
\* ensureSlotReady emits 'ready' right after 'checking' and returns: no switch
\* command is ever issued, the poll loop is never entered (no 'waiting', no
\* second status query) and the call does not fail in ensureSlotReady
C4_FastPath ==
    ShowsReady(firstReply) =>
        /\ Len(progressLog) >= 2
        /\ progressLog[1] = "checking"
        /\ progressLog[2] = "ready"
        /\ "switch" \notin Range(httpLog)
        /\ "switching" \notin Range(progressLog)
        /\ "waiting" \notin Range(progressLog)
        /\ Count(httpLog, "status") = 1
        /\ startTime = -1
        /\ sendPc \in {"send", "backoff", "done"}
        /\ sendResult \notin {"statusError", "switchFailed", "timeout"}

C4_Witness ==
    /\ ShowsReady(firstReply)
    /\ sendPc = "done"
    /\ sendResult = "ok"

\* C5 as stated: a call whose slot never shows Ready ends in a timeout no
\* later than the ceiling plus one poll interval after polling started, and
\* 'waiting' was emitted at least once per poll interval until then
C5_TimeoutWithinCeilingPlusInterval ==
    /\ sendResult = "timeout" =>
           now - startTime <= SLOT_ACTIVATION_TIMEOUT_MS + SLOT_POLL_INTERVAL_MS
    /\ maxWaitingGap <= SLOT_POLL_INTERVAL_MS

\* C5 amended: once the poll loop is entered, a call whose slot never shows
\* Ready can only end in a timeout; the timeout comes at or after the ceiling
\* and earlier than ceiling + poll interval + the status request's own
\* timeout; 'waiting' is emitted once before every poll (one per loop
\* iteration), so never more than poll interval + request timeout apart
C5_TimeoutBound ==
    /\ (startTime >= 0 /\ sendPc = "done" /\ ~readySeen) => sendResult = "timeout"
    /\ sendResult = "timeout" =>
           /\ ~readySeen
           /\ now - startTime >= SLOT_ACTIVATION_TIMEOUT_MS
           /\ now - startTime <
                  SLOT_ACTIVATION_TIMEOUT_MS + SLOT_POLL_INTERVAL_MS + HTTP_TIMEOUT_MS
    /\ maxWaitingGap <= SLOT_POLL_INTERVAL_MS + HTTP_TIMEOUT_MS
    /\ startTime >= 0 =>
           Count(progressLog, "waiting") =
               Count(httpLog, "status") - 1 + (IF sendPc = "sleep" THEN 1 ELSE 0)

C5_Witness ==
    /\ sendResult = "timeout"
    /\ now - startTime > SLOT_ACTIVATION_TIMEOUT_MS + SLOT_POLL_INTERVAL_MS
    /\ Count(progressLog, "waiting") >= 5

\* C6: sendSms succeeds only if the response has top-level code 200 and a
\* per-task status that indicates acceptance (a status starting with '0')
C6_SendValidation ==
    sendResult = "ok" =>
        /\ response.code = 200
        /\ Truthy(response.task)
        /\ StartsWith(response.task, "0")

\* C9: a sendSms whose first status query shows Ready and whose send meets no
\* transport failure issues no switch command and exactly one send command,
\* and its progress events are 'checking', 'ready', 'sending' in that order
C9_ReadySendOnce ==
    (ShowsReady(firstReply) /\ sendThrows = 0 /\ sendPc = "done") =>
        /\ Count(httpLog, "switch") = 0
        /\ Count(httpLog, "send") = 1
        /\ httpLog = <<"status", "send">>
        /\ progressLog = <<"checking", "ready", "sending">>

C9_Witness ==
    /\ ShowsReady(firstReply)
    /\ sendThrows = 0
    /\ sendPc = "done"
    /\ sendResult \in {"ok", "vendorCode"}

\* C11: a transport failure of the switch command does not abort
\* ensureSlotReady: no sendSms call ends with the switch command's failure,
\* the controller goes on to the poll loop instead
C11_SwitchFailureDoesNotAbort ==
    ~(sendPc = "done" /\ sendResult = "switchFailed")

C19_ReadinessFailurePropagates ==
    /\ (firstReply.error /\ sendPc # "status0") =>
           /\ sendPc = "done"
           /\ sendResult = "statusError"
    /\ sendResult \in {"statusError", "timeout"} =>
           /\ sendPc = "done"
           /\ "send" \notin Range(httpLog)
           /\ "sending" \notin Range(progressLog)
           /\ attempt = 0
           /\ response = NoResponse

C19_Witness ==
    /\ sendPc = "done"
    /\ sendResult = "timeout"
    /\ "switch" \in Range(httpLog)
    /\ Count(httpLog, "status") >= 9

\* C20 as stated: a sendSms call that ends in a vendor rejection has issued
\* the send command exactly once
C20_RejectedSentOnce ==
    sendResult \in {"vendorCode", "taskFailed"} => Count(httpLog, "send") = 1

\* C20 amended: a vendor rejection ends the call; the rejected command is not
\* issued again, so the send command was issued once for the rejected attempt
\* and once for each transport failure before it
C20_RejectionTerminal ==
    sendResult \in {"vendorCode", "taskFailed"} =>
        /\ sendPc = "done"
        /\ response.code # 200 \/ (Truthy(response.task) /\ response.task # TaskAccepted)
        /\ Count(httpLog, "send") = sendThrows + 1
        /\ attempt = sendThrows + 1

C20_Witness ==
    /\ sendResult = "vendorCode"
    /\ response.code = 14
    /\ sendThrows = 1
    /\ Count(httpLog, "send") = 2

----------------------------------------------------------------------------
(* Claims about isDuplicateMessage, checked under SpecDedupe *)

\* the calls made for the same triple as call i, before it
Earlier(i) == {j \in 1..(i - 1) : calls[j].triple = calls[i].triple}

IsCall == Len(calls') = Len(calls) + 1

\* the key of the call this step makes
CallKey ==
    LET c == calls'[Len(calls')]
    IN getMessageKey(c.triple[1], c.triple[2], c.triple[3])

\* a call for key k at time t on the map m finds k seen less than a window ago
SeenInWindow(m, k, t) == k \in DOMAIN m /\ t - m[k] < DEDUPE_WINDOW_MS

C33_PerFingerprint ==
    [][IsCall =>
        \A k \in (DOMAIN recentMessages \cup DOMAIN recentMessages') \ {CallKey} :
            \A d \in {0, 1, DEDUPE_WINDOW_MS - 1, DEDUPE_WINDOW_MS} :
                SeenInWindow(recentMessages', k, now + d)
                    = SeenInWindow(recentMessages, k, now + d)]_vars

\* a call for one triple swept the map between two calls for another, and
\* the second of these was reported duplicate all the same
C33_Witness ==
    /\ Len(calls) = 3
    /\ calls[1].triple = calls[3].triple
    /\ calls[2].triple # calls[1].triple
    /\ calls[2].at > calls[1].at
    /\ calls[3].result
    /\ FillerKey(2) \notin DOMAIN recentMessages
    /\ FillerKey(1) \in DOMAIN recentMessages

C23_EveryCallRecords ==
    \A i \in 1..Len(calls) :
        (\A j \in (i + 1)..Len(calls) : calls[j].triple # calls[i].triple) =>
            LET key == getMessageKey(calls[i].triple[1], calls[i].triple[2],
                                     calls[i].triple[3])
            IN /\ key \in DOMAIN recentMessages
               /\ recentMessages[key] = calls[i].at

\* the first status query was answered, with no error and a slot not Ready
SlowPath ==
    /\ sendPc \notin {"idle", "status0"}
    /\ firstReply # NoStatus
    /\ ~firstReply.error
    /\ ~ShowsReady(firstReply)

\* C27: when the first status query shows the slot not ready, one switch
\* command is issued, right after that query and after 'switching' was
\* emitted, and never again; the poll loop ends with success at the first
\* poll whose reply shows the slot active and Ready (the send follows), no
\* status query is issued after that poll, and no poll that shows anything
\* else ends the loop with success
C27_SlowPath ==
    SlowPath =>
        /\ Count(httpLog, "switch") = 1
        /\ httpLog[1] = "status" /\ httpLog[2] = "switch"
        /\ Len(progressLog) >= 2
        /\ progressLog[1] = "checking" /\ progressLog[2] = "switching"
        /\ Count(progressLog, "switching") = 1
        /\ ShowsReady(status) =>
              /\ sendPc \in {"send", "backoff", "done"}
              /\ "send" \in Range(httpLog)
              /\ Count(progressLog, "ready") = 1
              /\ sendResult \notin {"timeout", "statusError", "switchFailed"}
        /\ ~ShowsReady(status) =>
              /\ "send" \notin Range(httpLog)
              /\ "ready" \notin Range(progressLog)
              /\ sendResult # "ok"
        /\ \A i, j \in 1..Len(httpLog) :
              (i < j /\ httpLog[i] = "send") => httpLog[j] = "send"

\* the slot was not ready at first, the third poll showed it Ready, and the
\* message was sent
C27_Witness ==
    /\ SlowPath
    /\ sendPc = "done"
    /\ sendResult = "ok"
    /\ Count(httpLog, "switch") = 1
    /\ Count(httpLog, "status") = 4
    /\ ShowsReady(status)

\* C28: a status query of the poll loop that fails does not end
\* ensureSlotReady: after it the loop sleeps for the next poll, or ends in
\* the timeout once the ceiling has passed; a call with a failed poll never
\* ends in a status error, and can end in success
C28_FailedPollDoesNotAbort ==
    /\ pollFailed => sendResult \notin {"statusError", "switchFailed"}
    /\ (pollFailed /\ status.error) =>
          \/ sendPc \in {"sleep", "poll"}
          \/ /\ sendPc = "done"
             /\ sendResult = "timeout"
             /\ now - startTime >= SLOT_ACTIVATION_TIMEOUT_MS
    /\ (pollFailed /\ sendResult = "timeout") =>
          now - startTime >= SLOT_ACTIVATION_TIMEOUT_MS

\* a poll failed, a later one showed the slot Ready, and the message was sent
C28_Witness ==
    /\ pollFailed
    /\ ShowsReady(status)
    /\ sendPc = "done"
    /\ sendResult = "ok"

\* C29: when the first status query of ensureSlotReady fails, the call ends
\* at once with the status error: no switch command, no poll (no 'waiting',
\* no second status query), and sendSms issues no send command
C29_FirstStatusFailureEndsCall ==
    firstReply.error =>
        /\ sendPc = "done"
        /\ sendResult = "statusError"
        /\ httpLog = <<"status">>
        /\ progressLog = <<"checking">>
        /\ startTime = -1
        /\ ~pollFailed
        /\ attempt = 0

\* the first status query failed and the handler that called sendSms ran its
\* catch block
C29_Witness ==
    /\ firstReply.error
    /\ status.error
    /\ sendResult = "statusError"
    /\ callerPc = "failed"

\* C30: the timeout error of ensureSlotReady carries the status text of the
\* last status query that succeeded, also when the last query before the
\* ceiling failed
C30_TimeoutCarriesLastObserved ==
    sendResult = "timeout" =>
        TimeoutLastStatus(status) = statusText(lastGood)

\* C31: within one sendSms call every send command carries a transaction id
\* of its own, taken from the clock for that attempt
C31_TidChangesPerAttempt ==
    \A i, j \in 1..Len(tids) : i # j => tids[i] # tids[j]

\* C22: in the @mention flow and in the /reply command, unless sendSms
\* returned success no outbound Message row is inserted, the conversation's
\* last-activity timestamp (and the rest of the row) stays as it was, and no
\* pending delivery is registered
C22_OutboundOnlyAfterSuccess ==
    sendResult # "ok" =>
        /\ messages = <<>>
        /\ conversations = <<ThreadConversation>>
        /\ pendingDeliveries = <<>>
        /\ tracked = 0

\* the handler ended in its catch block after the vendor failed the task,
\* with the store as it was
C22_Witness ==
    /\ callerPc = "failed"
    /\ sendResult = "taskFailed"
    /\ Count(httpLog, "send") = 1
    /\ messages = <<>>
    /\ conversations = <<ThreadConversation>>
    /\ pendingDeliveries = <<>>

----------------------------------------------------------------------------
(* Claims about sendSms with a failing progress sink, checked under SpecSink *)

\* C25: an onProgress that throws at one of the steps 'checking', 'ready',
\* 'switching', 'waiting', 'sending' does not end ensureSlotReady or sendSms:
\* no call ends with what its progress sink threw
C25_SinkFailureDoesNotAbort ==
    sendResult # "progressFailed"

----------------------------------------------------------------------------
(* Claims about withRetry, checked under SpecRetry *)

\* what a withRetry call has done so far is within its bounds
RetryWithinBounds ==
    LET n == Len(retry.outcomes)
        failed(i) == retry.outcomes[i] \in FnErrors
    IN /\ n <= retry.maxRetries
       /\ \A i \in 1..(n - 1) : failed(i)
       /\ (n > 0 /\ ~failed(n)) =>
            retry.pc = "returned" /\ retry.result = retry.outcomes[n]
       /\ retry.pc = "threw" =>
            /\ n = retry.maxRetries
            /\ failed(n)
            /\ retry.result = retry.outcomes[n]
       /\ (n = retry.maxRetries /\ n > 0 /\ failed(n)) => retry.pc = "threw"
       /\ Len(retry.slept) = (IF n = 0 THEN 0
                              ELSE IF retry.pc = "fn" THEN n ELSE n - 1)
       /\ \A k \in 1..Len(retry.slept) :
            retry.slept[k] = retry.baseDelay * (2 ^ (k - 1))
       /\ (retry.maxRetries = 2 /\ retry.baseDelay = 1000) =>
            n <= 2 /\ retry.slept \in {<<>>, <<1000>>}

\* C21: withRetry calls fn at most maxRetries times, returns the value of
\* the first call that succeeds and calls fn no more, rethrows the error of
\* call number maxRetries when all calls failed, sleeps
\* baseDelay * 2^(k-1) before call k+1, and, with the two attempts and the
\* 1 s base delay sendSms passes, ends after at most two calls and one
\* sleep of 1000 ms; every call of withRetry ends
C21_WithRetryBounded ==
    /\ [](retry.pc = "idle" \/ RetryWithinBounds)
    /\ <>(retry.pc \in {"returned", "threw"})

\* four failures in a row: three sleeps, each twice the one before, and the
\* last error rethrown
C21_Witness ==
    /\ retry.pc = "threw"
    /\ retry.outcomes = <<"e1", "e1", "e2", "e1">>
    /\ retry.slept = <<250, 500, 1000>>
    /\ retry.result = "e1"

----------------------------------------------------------------------------
(* Claims about the inbound webhook, checked under Spec *)

SamePair(q, r) ==
    /\ req[q].sender = req[r].sender
    /\ req[q].recipient = req[r].recipient

\* the rows of the conversations table for a (sender, recipient) pair
RowsOf(sender, recipient) ==
    {i \in 1..Len(conversations) :
        /\ conversations[i].sender_phone = sender
        /\ conversations[i].recipient_phone = recipient}

\* C1: the conversations table never holds two rows for one (sender,
\* recipient) pair, and every request that has run its find-or-create holds
\* the id of the one row of its pair, so that all requests of a pair hold the
\* same id, whatever bank and slot they came with and however they interleave
C1_OneConversationPerPair ==
    /\ \A i, j \in 1..Len(conversations) :
          (/\ conversations[i].sender_phone = conversations[j].sender_phone
           /\ conversations[i].recipient_phone = conversations[j].recipient_phone)
              => i = j
    /\ \A r \in Reqs :
          req[r].conv # 0 =>
              /\ Cardinality(RowsOf(req[r].sender, req[r].recipient)) = 1
              /\ \A i \in RowsOf(req[r].sender, req[r].recipient) :
                     conversations[i].id = req[r].conv
    /\ \A q, r \in Reqs :
          (req[q].conv # 0 /\ req[r].conv # 0 /\ SamePair(q, r))
              => req[q].conv = req[r].conv

C1_Witness ==
    \E q, r \in Reqs :
        /\ q # r
        /\ SamePair(q, r)
        /\ req[q].bank # req[r].bank
        /\ req[q].slot # req[r].slot
        /\ req[q].pc = "postNew"
        /\ req[r].pc = "postNew"
        /\ req[q].conv = req[r].conv

\* C7: a request whose content matches the verification-code heuristic never
\* has the classifier invoked for it, never meets the short-code filter, and
\* is never answered spam_filtered nor posted to the spam channel
C7_VerificationBypass ==
    \A r \in Reqs :
        (req[r].pc # "new" /\ isVerificationCode(req[r].content)) =>
            /\ ~req[r].classified
            /\ req[r].pc \notin {"classify", "postSpam"}
            /\ req[r].resp # "spam_filtered"
            /\ \A i \in 1..Len(slackPosts) :
                   slackPosts[i].by = r => slackPosts[i].fn # "postSpamMessage"

C7_Witness ==
    \E r \in Reqs :
        /\ isVerificationCode(req[r].content)
        /\ isShortCode(req[r].sender)
        /\ req[r].resp = "ok"

\* the request went through the dedupe check and was recorded there as new
RecordedNew(q) ==
    /\ req[q].pc # "new"
    /\ req[q].resp \notin {"400", "delivery_report_processed", "duplicate_skipped"}

\* r repeats the triple of an earlier request q, recorded as new less than 30
\* minutes before r arrived
Repeats(q, r) ==
    /\ q < r
    /\ RecordedNew(q)
    /\ req[r].pc # "new"
    /\ SamePair(q, r)
    /\ req[q].content = req[r].content
    /\ req[r].at - req[q].at < DEDUPE_WINDOW_MS

C10_OneThreadPerPair ==
    \A i, j \in 1..Len(slackPosts) :
        (/\ slackPosts[i].fn = "postNewConversation"
         /\ slackPosts[j].fn = "postNewConversation"
         /\ SamePair(slackPosts[i].by, slackPosts[j].by))
            => i = j

\* the content starts with the delivery-report marker
HasMarker(c) ==
    /\ Len(c) >= 5
    /\ c[1] = "D" /\ c[2] = "R" /\ c[3] = "P" /\ c[4] = "T" /\ c[5] = ":"

HasDigit(phone) == \E i \in 1..Len(phone) : phone[i] \in Digits

\* rows and posts that request r made
MessagesBy(r) == {i \in 1..Len(messages) : messages[i].by = r}
PostsBy(r) == {i \in 1..Len(slackPosts) : slackPosts[i].by = r}

\* request r neither reached the classifier nor a conversation, and stored
\* and posted nothing
NoRouting(r) ==
    /\ ~req[r].classified
    /\ req[r].spam = "none"
    /\ req[r].conv = 0
    /\ MessagesBy(r) = {}
    /\ PostsBy(r) = {}

\* the branch of the fixed order that matches request r first
FirstBranch(r) ==
    IF req[r].sender = NULL THEN "400"
    ELSE IF HasMarker(req[r].content) THEN "delivery_report_processed"
    ELSE IF \E q \in Reqs : Repeats(q, r) THEN "duplicate_skipped"
    ELSE IF req[r].sender \in blockedNumbers THEN "blocked"
    ELSE IF req[r].spam # "none" THEN "spam_filtered"
    ELSE "ok"

C13_BlockedSenderAnsweredBlocked ==
    \A r \in Reqs :
        (req[r].pc # "new" /\ req[r].sender \in blockedNumbers) =>
            /\ req[r].pc = "done"
            /\ req[r].resp = "blocked"
            /\ NoRouting(r)

\* C13 amended: a request whose normalized sender is on the blocklist, and
\* which is neither a delivery report nor a repeat inside the dedupe window,
\* is answered blocked at once; a repeat is answered duplicate_skipped; in
\* both cases nothing is posted, no conversation and no Message row is
\* created and the classifier is not called
C13_BlockedSender ==
    \A r \in Reqs :
        (/\ req[r].pc # "new"
         /\ req[r].sender \in blockedNumbers
         /\ ~HasMarker(req[r].content)) =>
            /\ req[r].pc = "done"
            /\ req[r].resp = IF \E q \in Reqs : Repeats(q, r)
                             THEN "duplicate_skipped" ELSE "blocked"
            /\ req[r].http = 200
            /\ NoRouting(r)
            /\ \A i \in 1..Len(conversations) :
                   conversations[i].sender_phone # req[r].sender

C13_Witness ==
    \E q, r \in Reqs :
        /\ q < r
        /\ req[q].sender \in blockedNumbers
        /\ req[q].resp = "blocked"
        /\ req[r].sender \in blockedNumbers
        /\ req[r].resp = "blocked"
        /\ req[r].content # req[q].content
        /\ conversations = <<>>
        /\ messages = <<>>
        /\ slackPosts = <<>>

\* request r was classified as spam: by the classifier, or by the short-code
\* filter, which a message meets when it is no delivery report, no duplicate,
\* not blocked and no verification code and its sender has 5 or 6 digits
ClassifiedSpam(r) ==
    \/ req[r].spam = "classifier"
    \/ /\ req[r].pc # "new"
       /\ req[r].resp \notin {"400", "delivery_report_processed",
                               "duplicate_skipped", "blocked"}
       /\ ~isVerificationCode(req[r].content)
       /\ Len(SelectSeq(req[r].sender, LAMBDA c : c \in Digits)) \in {5, 6}

C16_InvalidRequestRejected ==
    \A r \in Reqs :
        (req[r].pc # "new" /\ (req[r].sender = NULL \/ ~HasDigit(req[r].sender))) =>
            /\ req[r].pc = "done"
            /\ req[r].resp = "400"
            /\ req[r].http = 400
            /\ NoRouting(r)
            /\ getMessageKey(req[r].sender, req[r].recipient, req[r].content)
                   \notin DOMAIN recentMessages

\* C17: a request that has stored its Message row is answered ok, and one
\* classified as spam is answered spam_filtered, also when the chat post of
\* its branch failed: no request is answered 500 for a failed notification
C17_NotificationFailureKeepsOutcome ==
    \A r \in Reqs :
        req[r].pc = "done" =>
            /\ MessagesBy(r) # {} => req[r].resp = "ok"
            /\ ClassifiedSpam(r) => req[r].resp = "spam_filtered"

\* the classification call of request r failed
ClassifierFailed(r) == req[r].answer \in {"error", "unparseable"}

StoredThread(table, id) ==
    LET hits == {i \in 1..Len(table) : table[i].id = id}
    IN IF hits = {} THEN 0 ELSE table[CHOOSE i \in hits : TRUE].slack_thread_ts

\* the step is a chat post of request r's message
IsChatPost(r) ==
    /\ Len(slackPosts') = Len(slackPosts) + 1
    /\ slackPosts'[Len(slackPosts')].by = r
    /\ slackPosts'[Len(slackPosts')].fn \in
            {"postNewConversation", "postInboundToThread"}

\* C36: a routed message whose conversation had no thread reference when the
\* handler looked it up is posted as a new thread, and the ts that post
\* returns is stored on the conversation; one whose conversation had a
\* reference is posted as a reply in that thread, and the stored reference
\* changes in that step only when Slack reports another thread than the one
\* replied in, and then to the reported one; either way the Message row is
\* there when the post is made
C36_ThreadDispatch ==
    /\ [][\A r \in Reqs :
            (req[r].pc = "monday" /\ req'[r].pc # "monday") =>
                LET found == findConversation(conversations, req[r].sender,
                                              req[r].recipient)
                IN /\ req'[r].thread = found.slack_thread_ts
                   /\ req'[r].pc = IF found.slack_thread_ts = 0 THEN "postNew"
                                   ELSE "postThread"
                   /\ \E i \in 1..Len(messages') :
                        /\ messages'[i].by = r
                        /\ messages'[i].conversation_id = req'[r].conv]_vars
    /\ [][\A r \in Reqs :
            IsChatPost(r) =>
                LET post == slackPosts'[Len(slackPosts')]
                    before == StoredThread(conversations, req[r].conv)
                    after == StoredThread(conversations', req[r].conv)
                IN /\ \E i \in 1..Len(messages) : messages[i].by = r
                   /\ req[r].thread = 0 =>
                        /\ post.fn = "postNewConversation"
                        /\ after = post.ts
                   /\ req[r].thread # 0 =>
                        /\ post.fn = "postInboundToThread"
                        /\ post.thread \in {req[r].thread, 0}
                        /\ post.thread = req[r].thread => after = before
                        /\ post.thread = 0 => after = post.ts]_vars

\* one request opened a thread, the next of the pair was posted as a reply in
\* it and the stored reference stayed the first post's ts
C36_Witness ==
    /\ Len(slackPosts) = 2
    /\ slackPosts[1].fn = "postNewConversation"
    /\ slackPosts[2].fn = "postInboundToThread"
    /\ slackPosts[2].thread = slackPosts[1].ts
    /\ \A r \in Reqs : req[r].pc = "done" /\ req[r].resp = "ok"
    /\ Len(conversations) = 1
    /\ conversations[1].slack_thread_ts = slackPosts[1].ts
    /\ Len(messages) = 2

----------------------------------------------------------------------------
(* Claims about the slot scan, checked under SpecScan *)

\* the runSlotScan call is under way
Executing(id) == scans[id].pc \in ScanAwaits

\* the state object of the call was marked stopped by stopScan
Stopped(id) == scans[id].status = "stopped"

\* C37: at most one runSlotScan call is under way at any time; a call made
\* while activeScan is set is rejected; a scan that stopScan stopped
\* issues no switch command afterwards; and activeScan is cleared only by
\* the call it refers to or by stopScan, the state object of a scan being
\* written only by that scan and by stopScan
C37_OneScanAtATime ==
    /\ [](Cardinality({id \in Scans : Executing(id)}) <= 1)
    /\ [][\A id \in Scans :
            (/\ scans[id].pc = "new"
             /\ scans'[id].pc # "new"
             /\ activeScan # 0)
                => scans'[id].pc = "rejected"]_vars
    /\ [][Len(switchLog') > Len(switchLog)
            => ~Stopped(switchLog'[Len(switchLog')].by)]_vars
    /\ [][\A id \in Scans :
            /\ (activeScan = id /\ activeScan' # id)
                    => \/ Stopped(id)'
                       \/ scans'[id].pc \in {"done", "failed"}
            /\ (Executing(id) /\ Executing(id)'
                 /\ scans'[id].currentSlot # scans[id].currentSlot)
                    => scans'[id].currentSlot = scans'[id].slotPos]_vars

----------------------------------------------------------------------------
(* Claims about blocked senders and the dedupe window, checked under
   SpecUnblock *)

\* request r arrives in this step
Arrives(r) == req[r].pc = "new" /\ req'[r].pc # "new"

\* C40: a request answered blocked leaves the dedupe map as it was; and a
\* message of a sender that is not blocked on arrival, all of whose earlier
\* copies in the last 30 minutes were answered blocked, is not answered
\* duplicate_skipped
C40_BlockedNotRecorded ==
    /\ [][\A r \in Reqs :
            (Arrives(r) /\ req'[r].resp = "blocked")
                => recentMessages' = recentMessages]_vars
    /\ [][\A r \in Reqs :
            (/\ Arrives(r)
             /\ ~isNumberBlocked(blockedNumbers, req'[r].sender)
             /\ \A q \in Reqs :
                    (/\ q # r
                     /\ req[q].pc # "new"
                     /\ req[q].sender = req'[r].sender
                     /\ req[q].recipient = req'[r].recipient
                     /\ req[q].content = req'[r].content
                     /\ now - req[q].at < DEDUPE_WINDOW_MS)
                        => req[q].resp = "blocked")
                => req'[r].resp # "duplicate_skipped"]_vars

----------------------------------------------------------------------------
(* Claims about the pending deliveries, checked under SpecDelivery *)

\* C39: when a delivery report is matched to a pending entry, that entry was
\* tracked no more than EXPIRY_MS (5 minutes) before
C39_PendingNotExpired ==
    [][\A r \in Reqs :
        (req[r].pc = "new" /\ req'[r].pendingTs # 0) =>
            LET key == cleanPhone(req'[r].deliveryPhone)
            IN /\ key \in DOMAIN pendingDeliveries
               /\ now - pendingDeliveries[key].timestamp <= EXPIRY_MS]_vars

----------------------------------------------------------------------------
(* Claims about the SIM activation watches, checked under SpecWatch *)

\* the map holds a watch of the phone whose end time has come
Expired(phone) ==
    /\ phone \in DOMAIN simActivationWatches
    /\ now >= simActivationWatches[phone].endTime

WatchKeys == {normalizeToTenDigits(number) : number \in WatchNumbers}

\* C38: a watch ends 10 minutes after it was set; an inbound message is
\* posted into a watch's thread only at a time before the watch's end; and a
\* watch whose end time has come is removed from the map (or replaced by a
\* new watch of the number) some time later, whichever flow set it
C38_WatchWindow ==
    /\ [][\A phone \in WatchKeys :
            (/\ phone \in DOMAIN simActivationWatches'
             /\ \/ phone \notin DOMAIN simActivationWatches
                \/ simActivationWatches'[phone] # simActivationWatches[phone])
                => simActivationWatches'[phone].endTime =
                        now + SIM_WATCH_DURATION_MS]_vars
    /\ [][(/\ Len(slackPosts') = Len(slackPosts) + 1
           /\ slackPosts'[Len(slackPosts')].fn = "checkSimActivationWatch")
            => \E phone \in DOMAIN simActivationWatches :
                /\ simActivationWatches[phone].threadTs =
                        slackPosts'[Len(slackPosts')].thread
                /\ now < simActivationWatches[phone].endTime]_vars
    /\ \A phone \in WatchKeys : [](Expired(phone) => <>(~Expired(phone)))

----------------------------------------------------------------------------
(* Claims about createConversation, checked under SpecCreate *)

\* C35: a createConversation call for a pair that has a row leaves the table
\* as it is, the row's id, bank, slot, thread reference and last-activity
\* time included, and returns that row
C35_CreateExistingIsNoOp ==
    [][IsCall =>
        LET c == calls'[Len(calls')]
            held == {i \in 1..Len(conversations) :
                        /\ conversations[i].sender_phone = c.data.sender_phone
                        /\ conversations[i].recipient_phone = c.data.recipient_phone}
        IN held # {} =>
             /\ conversations' = conversations
             /\ \E i \in held : c.row = conversations[i]]_vars

\* a call for the thread's pair with another bank, slot and thread returned
\* the row as it was, a second later
C35_Witness ==
    /\ Len(calls) = 1
    /\ now = 1000
    /\ calls[1].data.sender_phone = ThreadConversation.sender_phone
    /\ calls[1].data.sim_bank_id = "59999"
    /\ calls[1].data.sim_port = SlotUnknown
    /\ calls[1].data.slack_thread_ts = 7
    /\ calls[1].row = ThreadConversation
    /\ conversations = <<ThreadConversation>>

----------------------------------------------------------------------------
(* Claims about the store, checked under SpecStore *)

\* C26: no step of an inbound webhook, an outbound send, /block or /unblock
\* deletes a conversation row or puts another conversation in its place, and
\* none deletes a Message row or changes one: the rows that were there stay,
\* in their order, with their content, direction and conversation
C26_StoreOnlyGrows ==
    [][/\ Len(conversations') >= Len(conversations)
       /\ \A i \in 1..Len(conversations) :
            /\ conversations'[i].id = conversations[i].id
            /\ conversations'[i].sender_phone = conversations[i].sender_phone
            /\ conversations'[i].recipient_phone = conversations[i].recipient_phone
       /\ Len(messages') >= Len(messages)
       /\ \A i \in 1..Len(messages) : messages'[i] = messages[i]]_vars

\* an inbound message and an outbound one are stored, in two conversations,
\* and the sender of the inbound one was blocked afterwards
C26_Witness ==
    /\ Len(messages) = 2
    /\ messages[1].direction = "inbound"
    /\ messages[2].direction = "outbound"
    /\ Len(conversations) = 2
    /\ conversations[2].sender_phone \in blockedNumbers
    /\ callerPc = "tracked"

----------------------------------------------------------------------------
(* Claims about delivery reports, checked under SpecDelivery *)

\* C15: a request with the delivery-report marker is answered
\* delivery_report_processed and never reaches dedupe, blocklist,
\* classification or routing; and a tracked outbound message gets at most one
\* reaction, the pending entry being removed with the first report
C15_ReportResolvesPendingOnce ==
    /\ \A r \in Reqs :
          (req[r].pc # "new" /\ req[r].sender # NULL /\ HasMarker(req[r].content)) =>
              /\ req[r].pc \in {"react", "done"}
              /\ req[r].pc = "done" => req[r].resp = "delivery_report_processed"
              /\ NoRouting(r)
              /\ recentMessages = <<>>
    /\ \A i, j \in 1..Len(reactions) :
          reactions[i].ts = reactions[j].ts => i = j

====
